---- MODULE Spec2Model ----
(***************************************************************************)
(* Resource-lifecycle and leak-detection layer of bolt.diy:                *)
(*   - MemoryMonitor      (memory monitoring utility, trend / efficiency)  *)
(*   - file watcher       (safeWatch / safeWatchPaths / disposeFileWatcher)*)
(*   - TerminalStore      (app/lib/stores/terminal.ts)                     *)
(*   - test mocks         (tests/memory-leaks/mock-components.tsx)         *)
(*                                                                         *)
(* Byte counts are carried in KiB (1 unit = 1024 bytes), so that the sums  *)
(* of the regression stay inside TLC's integers; every byte constant of    *)
(* the source is divided by 1024.  JavaScript numbers that are quotients   *)
(* are carried as exact fractions [num, den] with den > 0.                 *)
(***************************************************************************)
EXTENDS Integers, Sequences, FiniteSets, TLC

(***************************************************************************)
(* Bounds of the model                                                     *)
(***************************************************************************)
MaxLog == 11          \* longest measurement log of the ramp workload
MaxLevelLog == 10     \* longest measurement log of the level workload
MaxHandles == 2       \* registrations (safeWatch + safeWatchPaths) per page load
MaxProcs == 2         \* shell processes spawned by attachTerminal
MaxDetach == 2        \* detachTerminal calls awaiting their kill() at one time
MaxSamples == 3       \* longest measurement log of a monitor run by its timer
MaxClock == 3         \* how far the wall clock runs, in sampling intervals
MaxMocks == 2         \* mock objects of one class started in a test

(***************************************************************************)
(* Program constants                                                       *)
(***************************************************************************)
MiB == 1024                      \* 1024 * 1024 bytes, in KiB
WindowSize == 10                 \* detectLeak: length < 10, slice(-10)
leakThreshold == MiB             \* detectLeak: 1024 * 1024

intervalMs == 1000               \* options.intervalMs (default)
NoReport == [none |-> TRUE]

VARIABLES
  measurements,   \* MemoryMonitor.measurements: Seq of [timestamp, heapUsed, testPhase]
  now,            \* the wall clock read by Date.now(), in ms
  report,         \* MemoryReport returned by the latest call if it was getReport()
  workload,       \* how the heap of the host behaves (what the snapshots read)
  isMonitoring,   \* MemoryMonitor.isMonitoring
  intervalId,     \* MemoryMonitor.intervalId: Undefined or the timer of setInterval
  startTime,      \* MemoryMonitor.startTime
  liveTimers,     \* setInterval timers of the monitor that are not cleared
  monitorOp       \* the call on the monitor that the latest step ran: [op, phase]

VARIABLES
  \* watcherState
  fallbackEnabled, watchingPaths, callbacks, pollingInterval, disposed,
  individualIntervals, cleanupListeners,
  \* the host around the file watcher
  storage,        \* localStorage['bolt-file-watcher-fallback']: "absent", "true", "false"
  storageOk,      \* localStorage is defined and does not throw
  windowHooks,    \* cleanup closures installed on window (beforeunload + unload)
  handles,        \* objects returned to callers: Seq of [kind, pattern, cb]
  closedHandles,  \* indices of handles whose close() has been called
  nativeOpen,     \* indices of handles whose native watcher is open
  liveIntervals,  \* indices of handles whose own setInterval timer is live
  calls,          \* safeWatch calls awaiting webcontainer.fs.watch: Seq of [pattern, cb]
  nativeCalls,    \* calls made to the native watch primitives
  invoked,        \* how often each callback was invoked by the latest step
  thrown,         \* the operation of the latest step threw to its caller
  justLoaded,     \* the latest step was the load of the page (module initialisation)
  watcherOp,      \* the operation of the file watcher that the latest step ran
  caught          \* callbacks whose exception the latest step caught

monitorVars == <<measurements, now, report, workload, isMonitoring, intervalId,
                 startTime, liveTimers, monitorOp>>
watcherVars == <<fallbackEnabled, watchingPaths, callbacks, pollingInterval, disposed,
                 individualIntervals, cleanupListeners, storage, storageOk,
                 windowHooks, handles, closedHandles, nativeOpen, liveIntervals,
                 calls, nativeCalls, invoked, thrown, justLoaded, watcherOp, caught>>
VARIABLES
  \* TerminalStore
  terminals,         \* #terminals: Seq of [terminal, process]
  storeDisposed,     \* #disposed
  \* the host around the store
  killed,            \* process.killed of every process
  killCalls,         \* calls of process.kill() per process
  killFailed,        \* processes of which a kill() has thrown or rejected
  spawned,           \* shell processes created so far
  attachCalls,       \* attachTerminal calls awaiting the spawn: Seq of terminals
  detachAll,         \* per caller: the state of its detachAllTerminals() call
  disposePc,         \* per shutdown signal: where its dispose() call stands
  boltDisposeCalls,  \* calls of #boltTerminal.dispose()
  boltOutcome,       \* how the call of #boltTerminal.dispose() ended
  spawnCalls,        \* calls of newShellProcess()
  errorWrites,       \* per terminal: 'Failed to spawn shell' messages written to it
  detachCalls,       \* detachTerminal calls awaiting their kill():
                     \* Seq of [terminal, index, process]
  lastOp             \* the attachTerminal / detachTerminal step just taken, if any

terminalVars == <<terminals, storeDisposed, killed, killCalls, killFailed, spawned,
                  attachCalls, detachAll, disposePc, boltDisposeCalls, boltOutcome,
                  spawnCalls, errorWrites, detachCalls, lastOp>>
VARIABLES
  \* the mocks of the leak tests
  activeMocks,       \* window.__activeProcesses / __activeFileWatchers /
                     \* __activeStreamReaders: per class, Seq of mock objects
  runningMocks,      \* per class, the mocks whose interval is live (isActive())
  createdMocks       \* per class, how many mocks were started so far
mockVars == <<activeMocks, runningMocks, createdMocks>>
nonMonitorVars == <<watcherVars, terminalVars, mockVars>>
nonWatcherVars == <<monitorVars, terminalVars, mockVars>>
nonTerminalVars == <<monitorVars, watcherVars, mockVars>>
nonMockVars == <<monitorVars, watcherVars, terminalVars>>
vars == <<monitorVars, watcherVars, terminalVars, mockVars>>

(***************************************************************************)
(* Fractions (JavaScript quotients)                                        *)
(***************************************************************************)
Frac(n, d) == [num |-> n, den |-> d]
FracOfInt(i) == Frac(i, 1)
FracLess(a, b) == a.num * b.den < b.num * a.den
FracEq(a, b) == a.num * b.den = b.num * a.den
FracSub(a, b) == Frac(a.num * b.den - b.num * a.den, a.den * b.den)
\* Math.max / Math.min on two numbers
FracMax(a, b) == IF FracLess(a, b) THEN b ELSE a
FracMin(a, b) == IF FracLess(b, a) THEN b ELSE a
\* a / b for integers a, b with b # 0
FracDiv(a, b) == IF b < 0 THEN Frac(-a, -b) ELSE Frac(a, b)

(***************************************************************************)
(* MemoryMonitor: pure helpers                                             *)
(***************************************************************************)
\* this.measurements.map(m => m.heapUsed)
HeapUsedOf(log) == [i \in 1..Len(log) |-> log[i].heapUsed]

\* values.slice(-k): the last k elements (all of them when there are fewer)
SliceLast(s, k) == IF Len(s) <= k THEN s ELSE SubSeq(s, Len(s) - k + 1, Len(s))

\* values.reduce((a, b) => a + b, 0)
RECURSIVE ReduceSum(_)
ReduceSum(values) ==
  IF values = <<>> THEN 0
  ELSE ReduceSum(SubSeq(values, 1, Len(values) - 1)) + values[Len(values)]

\* values.reduce((sum, y, x) => sum + x * y, 0), x the 0-based index
RECURSIVE ReduceSumXY(_)
ReduceSumXY(values) ==
  IF values = <<>> THEN 0
  ELSE ReduceSumXY(SubSeq(values, 1, Len(values) - 1))
         + (Len(values) - 1) * values[Len(values)]

\* Math.max(...values) of a non-empty array
RECURSIVE MathMax(_)
MathMax(values) ==
  IF Len(values) = 1 THEN values[1]
  ELSE LET m == MathMax(SubSeq(values, 1, Len(values) - 1))
       IN IF values[Len(values)] > m THEN values[Len(values)] ELSE m

calculateTrend(values) ==
  LET n == Len(values)
      sumX == (n * (n - 1)) \div 2
      sumY == ReduceSum(values)
      sumXY == ReduceSumXY(values)
      sumX2 == (n * (n - 1) * (2 * n - 1)) \div 6
      denominator == n * sumX2 - sumX * sumX
  IN IF n < 2 THEN FracOfInt(0)
     ELSE IF denominator # 0 THEN FracDiv(n * sumXY - sumX * sumY, denominator)
     ELSE FracOfInt(0)

\* detectLeak without the insufficient-data floor
detectLeak_NoFloor(log) ==
  LET recent == SliceLast(log, WindowSize)
      trend == calculateTrend(HeapUsedOf(recent))
  IN FracLess(FracOfInt(leakThreshold), trend)

\* detectLeak comparing with >= instead of >
detectLeak_AtLeast(log) ==
  IF Len(log) < WindowSize THEN FALSE
  ELSE LET recent == SliceLast(log, WindowSize)
           trend == calculateTrend(HeapUsedOf(recent))
       IN ~FracLess(trend, FracOfInt(leakThreshold))

detectLeak(log) ==
  IF Len(log) < WindowSize THEN FALSE
  ELSE LET recent == SliceLast(log, WindowSize)
           trend == calculateTrend(HeapUsedOf(recent))
       IN FracLess(FracOfInt(leakThreshold), trend)

\* calculateAverageGrowthRate dividing by the elapsed time whatever it is
calculateAverageGrowthRate_NoZeroGuard(log) ==
  IF Len(log) < 2 THEN FracOfInt(0)
  ELSE LET baseline == log[1]
           current == log[Len(log)]
           timeDiffMs == current.timestamp - baseline.timestamp
           memoryDiff == current.heapUsed - baseline.heapUsed
       IN Frac(memoryDiff * 1000, timeDiffMs)

calculateAverageGrowthRate(log) ==
  IF Len(log) < 2 THEN FracOfInt(0)
  ELSE LET baseline == log[1]
           current == log[Len(log)]
           timeDiffMs == current.timestamp - baseline.timestamp
           memoryDiff == current.heapUsed - baseline.heapUsed
       IN IF timeDiffMs > 0 THEN Frac(memoryDiff * 1000, timeDiffMs)
          ELSE FracOfInt(0)

\* calculateMemoryEfficiency without the clamp to [0,1]
calculateMemoryEfficiency_Unclamped(log) ==
  IF Len(log) < 2 THEN FracOfInt(1)
  ELSE LET baseline == log[1]
           peak == MathMax(HeapUsedOf(log))
           current == log[Len(log)]
       IN IF peak = baseline.heapUsed THEN FracOfInt(1)
          ELSE FracSub(FracOfInt(1),
                       FracDiv(current.heapUsed - baseline.heapUsed,
                               peak - baseline.heapUsed))

calculateMemoryEfficiency(log) ==
  IF Len(log) < 2 THEN FracOfInt(1)
  ELSE LET baseline == log[1]
           peak == MathMax(HeapUsedOf(log))
           current == log[Len(log)]
       IN IF peak = baseline.heapUsed THEN FracOfInt(1)
          ELSE LET efficiency ==
                     FracSub(FracOfInt(1),
                             FracDiv(current.heapUsed - baseline.heapUsed,
                                     peak - baseline.heapUsed))
               IN FracMax(FracOfInt(0), FracMin(FracOfInt(1), efficiency))

\* getReport taking the peak from the first and the last measurement only
getReport_PeakOfEnds(log) ==
  IF Len(log) = 0
  THEN [baseline |-> 0, current |-> 0, peak |-> 0, growth |-> 0,
        leakDetected |-> FALSE, averageGrowthRate |-> FracOfInt(0),
        memoryEfficiency |-> FracOfInt(1)]
  ELSE LET baseline == log[1]
           current == log[Len(log)]
           peak == MathMax(<<baseline.heapUsed, current.heapUsed>>)
           growth == current.heapUsed - baseline.heapUsed
       IN [baseline |-> baseline.heapUsed, current |-> current.heapUsed,
           peak |-> peak, growth |-> growth,
           leakDetected |-> detectLeak(log),
           averageGrowthRate |-> calculateAverageGrowthRate(log),
           memoryEfficiency |-> calculateMemoryEfficiency(log)]

getReport(log) ==
  IF Len(log) = 0
  THEN [baseline |-> 0, current |-> 0, peak |-> 0, growth |-> 0,
        leakDetected |-> FALSE, averageGrowthRate |-> FracOfInt(0),
        memoryEfficiency |-> FracOfInt(1)]
  ELSE LET baseline == log[1]
           current == log[Len(log)]
           peak == MathMax(HeapUsedOf(log))
           growth == current.heapUsed - baseline.heapUsed
       IN [baseline |-> baseline.heapUsed, current |-> current.heapUsed,
           peak |-> peak, growth |-> growth,
           leakDetected |-> detectLeak(log),
           averageGrowthRate |-> calculateAverageGrowthRate(log),
           memoryEfficiency |-> calculateMemoryEfficiency(log)]

(***************************************************************************)
(* MemoryMonitor: operations                                               *)
(***************************************************************************)
Undefined == "undefined"
NoCall == [op |-> "none", phase |-> "none", warnings |-> {}]
Call(op, phase) == [op |-> op, phase |-> phase, warnings |-> {}]
\* a call that logged the diagnostic notifications w
Notified(op, phase, w) == [op |-> op, phase |-> phase, warnings |-> w]

\* this.thresholds
warningGrowth == 50 * MiB
criticalGrowth == 100 * MiB
maxBaseline == 100 * MiB

\* the notifications that checkThresholds(measurement) logs, measurement
\* being the one just pushed at the end of log
checkThresholds(log) ==
  IF Len(log) < 2 THEN {}
  ELSE LET baseline == log[1]
           measurement == log[Len(log)]
           growth == measurement.heapUsed - baseline.heapUsed
       IN (IF growth > criticalGrowth THEN {"critical"}
           ELSE IF growth > warningGrowth THEN {"warning"}
           ELSE {})
          \cup (IF measurement.heapUsed > maxBaseline THEN {"absolute"} ELSE {})

\* the fields of a monitor after its constructor
MonitorFresh ==
  /\ measurements = <<>>
  /\ now = 0
  /\ report = NoReport
  /\ isMonitoring = FALSE
  /\ intervalId = Undefined
  /\ startTime = 0
  /\ liveTimers = 0
  /\ monitorOp = NoCall

MonitorInit ==
  /\ MonitorFresh
  /\ workload \in {"ramp", "levels"}

MonitorIdle ==
  /\ MonitorFresh
  /\ workload = "ramp"

\* recordMeasurement putting the new measurement in front of the log
recordMeasurement_Unshift(log, t, testPhase, h) ==
  <<[timestamp |-> t, heapUsed |-> h, testPhase |-> testPhase]>> \o log

\* the log after recordMeasurement(testPhase) at clock reading t, when
\* getMemoryUsage() reads heapUsed = h
recordMeasurement(log, t, testPhase, h) ==
  Append(log, [timestamp |-> t, heapUsed |-> h, testPhase |-> testPhase])

\* recordMeasurement(testPhase) when getMemoryUsage() reads heapUsed = h
RecordMeasurement(testPhase, h) ==
  /\ measurements' = recordMeasurement(measurements, now, testPhase, h)
  /\ report' = NoReport
  /\ monitorOp' = Notified("recordMeasurement", testPhase,
                           checkThresholds(measurements'))
  /\ UNCHANGED <<now, workload, isMonitoring, intervalId, startTime, liveTimers>>
  /\ UNCHANGED nonMonitorVars

GetReport ==
  /\ report' = getReport(measurements)
  /\ monitorOp' = Call("getReport", "none")
  /\ UNCHANGED <<measurements, now, workload, isMonitoring, intervalId, startTime,
                 liveTimers>>
  /\ UNCHANGED nonMonitorVars

(***************************************************************************)
(* Workloads: what the snapshot provider reads                             *)
(***************************************************************************)
\* ramp workload: the heap starts at 0 and moves by one of RampSteps between
\* two samples; level workload: the heap is at one of a few levels
RampSteps == {0, MiB, 2 * MiB}
Levels == {10 * MiB, 30 * MiB, 50 * MiB}
\* heavy workload: the heap is small, or large enough to cross the growth
\* thresholds and the absolute one
HeavyLevels == {10 * MiB, 70 * MiB, 120 * MiB}

HeapReadings ==
  IF workload = "flat" THEN {10 * MiB}
  ELSE IF workload = "heavy" THEN HeavyLevels
  ELSE IF workload = "levels" THEN Levels
  ELSE IF measurements = <<>> THEN {0}
  ELSE {measurements[Len(measurements)].heapUsed + d : d \in RampSteps}

LogBound == IF workload = "levels" THEN MaxLevelLog ELSE MaxLog

RecordSample ==
  /\ Len(measurements) < LogBound
  /\ \E h \in HeapReadings : RecordMeasurement("monitoring", h)

(***************************************************************************)
(* MemoryMonitor: the sampling timer                                       *)
(***************************************************************************)
StartPhases == {"baseline", "stress"}

\* startMonitoring(testPhase) without the isMonitoring guard
StartMonitoring_NoGuard(testPhase) ==
  /\ report' = NoReport
  /\ isMonitoring' = TRUE
  /\ startTime' = now
  /\ \E h \in HeapReadings :
       measurements' = recordMeasurement(<<>>, now, testPhase, h)
  /\ monitorOp' = Notified("startMonitoring", testPhase,
                           checkThresholds(measurements'))
  /\ intervalId' = "timer"
  /\ liveTimers' = liveTimers + 1
  /\ UNCHANGED <<now, workload>>
  /\ UNCHANGED nonMonitorVars

\* startMonitoring(testPhase): a running monitor only warns; otherwise the log
\* is reset, one measurement is recorded and the timer is created
StartMonitoring(testPhase) ==
  /\ report' = NoReport
  /\ IF isMonitoring
     THEN /\ monitorOp' = Call("startMonitoring", testPhase)
          /\ UNCHANGED <<measurements, isMonitoring, intervalId, startTime,
                         liveTimers>>
     ELSE /\ isMonitoring' = TRUE
          /\ startTime' = now
          /\ \E h \in HeapReadings :
               measurements' = recordMeasurement(<<>>, now, testPhase, h)
          /\ monitorOp' = Notified("startMonitoring", testPhase,
                                   checkThresholds(measurements'))
          /\ intervalId' = "timer"
          /\ liveTimers' = liveTimers + 1
  /\ UNCHANGED <<now, workload>>
  /\ UNCHANGED nonMonitorVars

\* stopMonitoring() that forgets the timer without clearing it
StopMonitoring_KeepsTimer ==
  /\ monitorOp' = Call("stopMonitoring", "none")
  /\ report' = NoReport
  /\ intervalId' = Undefined
  /\ isMonitoring' = FALSE
  /\ UNCHANGED <<measurements, now, workload, startTime, liveTimers>>
  /\ UNCHANGED nonMonitorVars

\* stopMonitoring(): the timer, if there is one, is cleared and forgotten
StopMonitoring ==
  /\ monitorOp' = Call("stopMonitoring", "none")
  /\ report' = NoReport
  /\ IF intervalId # Undefined
     THEN /\ liveTimers' = liveTimers - 1
          /\ intervalId' = Undefined
     ELSE UNCHANGED <<liveTimers, intervalId>>
  /\ isMonitoring' = FALSE
  /\ UNCHANGED <<measurements, now, workload, startTime>>
  /\ UNCHANGED nonMonitorVars

\* one firing of a timer of the monitor: recordMeasurement('monitoring')
TimerTick ==
  /\ liveTimers > 0
  /\ Len(measurements) < MaxSamples
  /\ report' = NoReport
  /\ \E h \in HeapReadings :
       measurements' = recordMeasurement(measurements, now, "monitoring", h)
  /\ monitorOp' = Notified("tick", "monitoring", checkThresholds(measurements'))
  /\ UNCHANGED <<now, workload, isMonitoring, intervalId, startTime, liveTimers>>
  /\ UNCHANGED nonMonitorVars

\* clear() that also marks the monitor as stopped, leaving its timer alone
Clear_MarksStopped ==
  /\ monitorOp' = Call("clear", "none")
  /\ report' = NoReport
  /\ measurements' = <<>>
  /\ startTime' = 0
  /\ isMonitoring' = FALSE
  /\ UNCHANGED <<now, workload, intervalId, liveTimers>>
  /\ UNCHANGED nonMonitorVars

\* clear()
Clear ==
  /\ monitorOp' = Call("clear", "none")
  /\ report' = NoReport
  /\ measurements' = <<>>
  /\ startTime' = 0
  /\ UNCHANGED <<now, workload, isMonitoring, intervalId, liveTimers>>
  /\ UNCHANGED nonMonitorVars

SnapshotLabels == {"before"}

\* `snapshot-${label}`
SnapshotPhase(label) ==
  IF label = "before" THEN "snapshot-before" ELSE "snapshot-after"

\* recordMeasurement() called by a client of the monitor, with its default
\* phase
RecordNow ==
  /\ Len(measurements) < MaxSamples
  /\ \E h \in HeapReadings : RecordMeasurement("unknown", h)

\* takeSnapshot(label): one measurement is pushed and returned; the thresholds
\* are not looked at
TakeSnapshot(label) ==
  /\ Len(measurements) < MaxSamples
  /\ monitorOp' = Call("takeSnapshot", SnapshotPhase(label))
  /\ report' = NoReport
  /\ \E h \in HeapReadings :
       measurements' = Append(measurements,
                              [timestamp |-> now, heapUsed |-> h,
                               testPhase |-> SnapshotPhase(label)])
  /\ UNCHANGED <<now, workload, isMonitoring, intervalId, startTime, liveTimers>>
  /\ UNCHANGED nonMonitorVars

\* exportData(): the report is computed and serialised with the log
ExportData ==
  /\ report' = getReport(measurements)
  /\ monitorOp' = Call("exportData", "none")
  /\ UNCHANGED <<measurements, now, workload, isMonitoring, intervalId, startTime,
                 liveTimers>>
  /\ UNCHANGED nonMonitorVars

\* the wall clock moves on by one sampling interval
AdvanceClock ==
  /\ now < MaxClock * intervalMs
  /\ now' = now + intervalMs
  /\ monitorOp' = NoCall
  /\ report' = NoReport
  /\ UNCHANGED <<measurements, workload, isMonitoring, intervalId, startTime,
                 liveTimers>>
  /\ UNCHANGED nonMonitorVars

(***************************************************************************)
(* File watcher: state and helpers                                         *)
(***************************************************************************)
Patterns == {"src", "pkg"}
Callbacks == {"f", "g"}
Null == "null"
Timer == "timer"
EmptyMap == [q \in {} |-> <<>>]
NoneInvoked == [c \in Callbacks |-> 0]
InSeq(x, sq) == \E k \in 1..Len(sq) : sq[k] = x

tryLoadFallbackState(store, ok) == ok /\ store = "true"

\* saveFallbackState(true): the new content of the storage key
saveFallbackState(store, ok) == IF ok THEN "true" ELSE store

\* callbacks.has / set / get(pattern).add(callback); a Set keeps insertion order
AddCallback(cbs, p, cb) ==
  IF p \notin DOMAIN cbs THEN [q \in DOMAIN cbs \cup {p} |-> IF q = p THEN <<cb>> ELSE cbs[q]]
  ELSE IF InSeq(cb, cbs[p]) THEN cbs
  ELSE [cbs EXCEPT ![p] = Append(cbs[p], cb)]

\* callbacks.get(pattern)?.delete(callback); the pattern goes with its last callback
DeleteCallback(cbs, p, cb) ==
  IF p \notin DOMAIN cbs THEN cbs
  ELSE LET rest == SelectSeq(cbs[p], LAMBDA x : x # cb)
       IN IF rest = <<>> THEN [q \in DOMAIN cbs \ {p} |-> cbs[q]]
          ELSE [cbs EXCEPT ![p] = rest]

\* ensurePollingActive that starts the timer only the first time
ensurePollingActive_OnlyOnce(timer, disp, listeners, hooks) ==
  IF timer # Null \/ disp \/ listeners > 0
  THEN [pollingInterval |-> timer, cleanupListeners |-> listeners, windowHooks |-> hooks]
  ELSE [pollingInterval |-> Timer, cleanupListeners |-> listeners + 1,
        windowHooks |-> hooks + 1]

\* ensurePollingActive(): the timer, the cleanup set and the window hooks after it
ensurePollingActive(timer, disp, listeners, hooks) ==
  IF timer # Null \/ disp
  THEN [pollingInterval |-> timer, cleanupListeners |-> listeners, windowHooks |-> hooks]
  ELSE [pollingInterval |-> Timer, cleanupListeners |-> listeners + 1,
        windowHooks |-> hooks + 1]

\* stopPolling(): the timer after it
stopPolling(timer) == Null

\* invocations made by one shared poll tick in which a callback that throws
\* ends the tick: the callbacks that do not throw are not invoked
PollInvocations_NoCatch(cbs, throwers) ==
  [c \in Callbacks |->
     IF c \notin throwers /\ \E q \in DOMAIN cbs : \E k \in 1..Len(cbs[q]) : cbs[q][k] \in throwers
     THEN 0
     ELSE Cardinality({q \in DOMAIN cbs : InSeq(c, cbs[q])})]

\* invocations made by one shared poll tick when the callbacks in throwers
\* throw: each call is inside its own try/catch, so every callback of every
\* pattern is invoked
PollInvocations(cbs, throwers) ==
  [c \in Callbacks |-> Cardinality({q \in DOMAIN cbs : InSeq(c, cbs[q])})]

\* invocations made by callbacks.forEach(cb => cb()) when the callbacks in
\* throwers throw: forEach stops at the first one that throws
ForEachInvocations(sq, throwers) ==
  LET stop == IF \E k \in 1..Len(sq) : sq[k] \in throwers
              THEN CHOOSE k \in 1..Len(sq) :
                     /\ sq[k] \in throwers
                     /\ \A m \in 1..(k - 1) : sq[m] \notin throwers
              ELSE Len(sq)
  IN [c \in Callbacks |-> IF \E k \in 1..stop : sq[k] = c THEN 1 ELSE 0]

Registrations == Len(handles) + Len(calls)
RemoveAt(sq, i) == SubSeq(sq, 1, i - 1) \o SubSeq(sq, i + 1, Len(sq))

WatcherFresh(store, ok) ==
  /\ storage = store
  /\ storageOk = ok
  /\ fallbackEnabled = tryLoadFallbackState(store, ok)
  /\ watchingPaths = {}
  /\ callbacks = EmptyMap
  /\ pollingInterval = Null
  /\ disposed = FALSE
  /\ individualIntervals = {}
  /\ cleanupListeners = 0
  /\ windowHooks = 0
  /\ handles = <<>>
  /\ closedHandles = {}
  /\ nativeOpen = {}
  /\ liveIntervals = {}
  /\ calls = <<>>
  /\ nativeCalls = 0
  /\ invoked = NoneInvoked
  /\ thrown = FALSE
  /\ justLoaded = TRUE
  /\ watcherOp = "load"
  /\ caught = {}

WatcherInit ==
  \E store \in {"absent", "true", "false"}, ok \in BOOLEAN : WatcherFresh(store, ok)

WatcherIdle == WatcherFresh("absent", TRUE)

(***************************************************************************)
(* File watcher: operations                                                *)
(***************************************************************************)
\* the catch branch without the switch to fallback mode
SafeWatchCatch_NotSticky(p, cb, cbs) ==
  LET polling == ensurePollingActive(pollingInterval, disposed, cleanupListeners, windowHooks)
  IN /\ fallbackEnabled' = fallbackEnabled
     /\ storage' = saveFallbackState(storage, storageOk)
     /\ pollingInterval' = polling.pollingInterval
     /\ cleanupListeners' = polling.cleanupListeners
     /\ windowHooks' = polling.windowHooks
     /\ callbacks' = cbs
     /\ handles' = Append(handles, [kind |-> "catch", pattern |-> p, cb |-> cb])

\* the catch branch without saveFallbackState(true)
SafeWatchCatch_NoSave(p, cb, cbs) ==
  LET polling == ensurePollingActive(pollingInterval, disposed, cleanupListeners, windowHooks)
  IN /\ fallbackEnabled' = TRUE
     /\ storage' = storage
     /\ pollingInterval' = polling.pollingInterval
     /\ cleanupListeners' = polling.cleanupListeners
     /\ windowHooks' = polling.windowHooks
     /\ callbacks' = cbs
     /\ handles' = Append(handles, [kind |-> "catch", pattern |-> p, cb |-> cb])

\* the catch branch of safeWatch for pattern p and callback cb, the callback
\* being registered already in cbs
SafeWatchCatch(p, cb, cbs) ==
  LET polling == ensurePollingActive(pollingInterval, disposed, cleanupListeners, windowHooks)
  IN /\ fallbackEnabled' = TRUE
     /\ storage' = saveFallbackState(storage, storageOk)
     /\ pollingInterval' = polling.pollingInterval
     /\ cleanupListeners' = polling.cleanupListeners
     /\ windowHooks' = polling.windowHooks
     /\ callbacks' = cbs
     /\ handles' = Append(handles, [kind |-> "catch", pattern |-> p, cb |-> cb])

\* safeWatch without the check of watcherState.disposed
SafeWatch_NoGuard(p, cb) ==
  /\ justLoaded' = FALSE
  /\ watcherOp' = "SafeWatch"
  /\ caught' = {}
  /\ Registrations < MaxHandles
  /\ invoked' = NoneInvoked
  /\ IF FALSE
     THEN /\ thrown' = TRUE
          /\ UNCHANGED <<fallbackEnabled, watchingPaths, callbacks, pollingInterval,
                         disposed, individualIntervals, cleanupListeners, storage,
                         storageOk, windowHooks, handles, closedHandles, nativeOpen,
                         liveIntervals, calls, nativeCalls>>
     ELSE
       /\ thrown' = FALSE
       /\ IF fallbackEnabled
          THEN LET polling == ensurePollingActive(pollingInterval, disposed,
                                                  cleanupListeners, windowHooks)
               IN /\ callbacks' = AddCallback(callbacks, p, cb)
                  /\ pollingInterval' = polling.pollingInterval
                  /\ cleanupListeners' = polling.cleanupListeners
                  /\ windowHooks' = polling.windowHooks
                  /\ handles' = Append(handles, [kind |-> "fallback", pattern |-> p, cb |-> cb])
                  /\ UNCHANGED <<fallbackEnabled, storage, calls, nativeCalls>>
          ELSE /\ nativeCalls' = nativeCalls + 1
               /\ \/ \* webcontainer.fs.watch throws at once
                     /\ SafeWatchCatch(p, cb, AddCallback(callbacks, p, cb))
                     /\ UNCHANGED calls
                  \/ \* the call is awaited
                     /\ callbacks' = AddCallback(callbacks, p, cb)
                     /\ calls' = Append(calls, [pattern |-> p, cb |-> cb])
                     /\ UNCHANGED <<fallbackEnabled, storage, pollingInterval,
                                    cleanupListeners, windowHooks, handles>>
       /\ UNCHANGED <<watchingPaths, disposed, individualIntervals, storageOk,
                      closedHandles, nativeOpen, liveIntervals>>
  /\ UNCHANGED nonWatcherVars

\* safeWatch(webcontainer, p, cb) up to its return or its await
SafeWatch(p, cb) ==
  /\ justLoaded' = FALSE
  /\ watcherOp' = "SafeWatch"
  /\ caught' = {}
  /\ Registrations < MaxHandles
  /\ invoked' = NoneInvoked
  /\ IF disposed
     THEN /\ thrown' = TRUE
          /\ UNCHANGED <<fallbackEnabled, watchingPaths, callbacks, pollingInterval,
                         disposed, individualIntervals, cleanupListeners, storage,
                         storageOk, windowHooks, handles, closedHandles, nativeOpen,
                         liveIntervals, calls, nativeCalls>>
     ELSE
       /\ thrown' = FALSE
       /\ IF fallbackEnabled
          THEN LET polling == ensurePollingActive(pollingInterval, disposed,
                                                  cleanupListeners, windowHooks)
               IN /\ callbacks' = AddCallback(callbacks, p, cb)
                  /\ pollingInterval' = polling.pollingInterval
                  /\ cleanupListeners' = polling.cleanupListeners
                  /\ windowHooks' = polling.windowHooks
                  /\ handles' = Append(handles, [kind |-> "fallback", pattern |-> p, cb |-> cb])
                  /\ UNCHANGED <<fallbackEnabled, storage, calls, nativeCalls>>
          ELSE /\ nativeCalls' = nativeCalls + 1
               /\ \/ \* webcontainer.fs.watch throws at once
                     /\ SafeWatchCatch(p, cb, AddCallback(callbacks, p, cb))
                     /\ UNCHANGED calls
                  \/ \* the call is awaited
                     /\ callbacks' = AddCallback(callbacks, p, cb)
                     /\ calls' = Append(calls, [pattern |-> p, cb |-> cb])
                     /\ UNCHANGED <<fallbackEnabled, storage, pollingInterval,
                                    cleanupListeners, windowHooks, handles>>
       /\ UNCHANGED <<watchingPaths, disposed, individualIntervals, storageOk,
                      closedHandles, nativeOpen, liveIntervals>>
  /\ UNCHANGED nonWatcherVars

\* the awaited webcontainer.fs.watch of call i yields a watcher
SafeWatchResolved(i) ==
  /\ justLoaded' = FALSE
  /\ watcherOp' = "SafeWatchResolved"
  /\ caught' = {}
  /\ i \in 1..Len(calls)
  /\ watchingPaths' = watchingPaths \cup {calls[i].pattern}
  /\ handles' = Append(handles, [kind |-> "native", pattern |-> calls[i].pattern,
                                 cb |-> calls[i].cb])
  /\ nativeOpen' = nativeOpen \cup {Len(handles) + 1}
  /\ calls' = RemoveAt(calls, i)
  /\ invoked' = NoneInvoked
  /\ thrown' = FALSE
  /\ UNCHANGED <<fallbackEnabled, callbacks, pollingInterval, disposed,
                 individualIntervals, cleanupListeners, storage, storageOk,
                 windowHooks, closedHandles, liveIntervals, nativeCalls>>
  /\ UNCHANGED nonWatcherVars

\* the awaited webcontainer.fs.watch of call i rejects
SafeWatchRejected(i) ==
  /\ justLoaded' = FALSE
  /\ watcherOp' = "SafeWatchRejected"
  /\ caught' = {}
  /\ i \in 1..Len(calls)
  /\ SafeWatchCatch(calls[i].pattern, calls[i].cb, callbacks)
  /\ calls' = RemoveAt(calls, i)
  /\ invoked' = NoneInvoked
  /\ thrown' = FALSE
  /\ UNCHANGED <<watchingPaths, disposed, individualIntervals, storageOk,
                 closedHandles, nativeOpen, liveIntervals, nativeCalls>>
  /\ UNCHANGED nonWatcherVars

\* the polling part of safeWatchPaths (both branches have the same code):
\* shared polling plus an interval of its own
WatchPathsPolling(cb, kind) ==
  LET polling == ensurePollingActive(pollingInterval, disposed, cleanupListeners, windowHooks)
      id == Len(handles) + 1
  IN /\ pollingInterval' = polling.pollingInterval
     /\ cleanupListeners' = polling.cleanupListeners
     /\ windowHooks' = polling.windowHooks
     /\ liveIntervals' = liveIntervals \cup {id}
     /\ individualIntervals' = individualIntervals \cup {id}
     /\ handles' = Append(handles, [kind |-> kind, pattern |-> "paths", cb |-> cb])

\* safeWatchPaths(webcontainer, config, cb)
SafeWatchPaths(cb) ==
  /\ justLoaded' = FALSE
  /\ watcherOp' = "SafeWatchPaths"
  /\ caught' = {}
  /\ Registrations < MaxHandles
  /\ invoked' = NoneInvoked
  /\ thrown' = FALSE
  /\ IF fallbackEnabled
     THEN /\ WatchPathsPolling(cb, "interval")
          /\ UNCHANGED <<fallbackEnabled, storage, nativeOpen, nativeCalls>>
     ELSE /\ nativeCalls' = nativeCalls + 1
          /\ \/ \* webcontainer.internal.watchPaths returns its subscription
                /\ handles' = Append(handles, [kind |-> "nativePaths",
                                               pattern |-> "paths", cb |-> cb])
                /\ nativeOpen' = nativeOpen \cup {Len(handles) + 1}
                /\ UNCHANGED <<fallbackEnabled, storage, pollingInterval,
                               cleanupListeners, windowHooks, liveIntervals,
                               individualIntervals>>
             \/ \* webcontainer.internal.watchPaths throws
                /\ fallbackEnabled' = TRUE
                /\ storage' = saveFallbackState(storage, storageOk)
                /\ WatchPathsPolling(cb, "catchInterval")
                /\ UNCHANGED nativeOpen
  /\ UNCHANGED <<watchingPaths, callbacks, disposed, storageOk, closedHandles,
                 calls>>
  /\ UNCHANGED nonWatcherVars

\* close() of the object returned as handle i.  A native watcher.close() that
\* throws is caught and leaves the state as it was (a stuttering step).
CloseHandle(i) ==
  /\ justLoaded' = FALSE
  /\ watcherOp' = "CloseHandle"
  /\ caught' = {}
  /\ i \in 1..Len(handles)
  /\ closedHandles' = closedHandles \cup {i}
  /\ invoked' = NoneInvoked
  /\ thrown' = FALSE
  /\ LET h == handles[i] IN
     CASE h.kind = "fallback" ->
            /\ callbacks' = DeleteCallback(callbacks, h.pattern, h.cb)
            /\ UNCHANGED <<watchingPaths, pollingInterval, nativeOpen, liveIntervals,
                           individualIntervals>>
       [] h.kind = "native" ->
            /\ nativeOpen' = nativeOpen \ {i}
            /\ watchingPaths' = watchingPaths \ {h.pattern}
            /\ callbacks' = DeleteCallback(callbacks, h.pattern, h.cb)
            /\ UNCHANGED <<pollingInterval, liveIntervals, individualIntervals>>
       [] h.kind = "catch" ->
            /\ callbacks' = DeleteCallback(callbacks, h.pattern, h.cb)
            /\ pollingInterval' = IF DOMAIN callbacks' = {}
                                  THEN stopPolling(pollingInterval)
                                  ELSE pollingInterval
            /\ UNCHANGED <<watchingPaths, nativeOpen, liveIntervals, individualIntervals>>
       [] h.kind \in {"interval", "catchInterval"} ->
            /\ liveIntervals' = liveIntervals \ {i}
            /\ individualIntervals' = individualIntervals \ {i}
            /\ UNCHANGED <<watchingPaths, callbacks, pollingInterval, nativeOpen>>
       [] h.kind = "nativePaths" ->
            /\ nativeOpen' = nativeOpen \ {i}
            /\ UNCHANGED <<watchingPaths, callbacks, pollingInterval, liveIntervals,
                           individualIntervals>>
  /\ UNCHANGED <<fallbackEnabled, disposed, cleanupListeners, storage, storageOk,
                 windowHooks, handles, calls, nativeCalls>>
  /\ UNCHANGED nonWatcherVars

\* one firing of the shared poll timer; a callback that throws is caught, so
\* every callback is invoked whichever of them throw
PollTick ==
  /\ justLoaded' = FALSE
  /\ watcherOp' = "PollTick"
  /\ pollingInterval # Null
  /\ thrown' = FALSE
  /\ IF disposed
     THEN /\ pollingInterval' = stopPolling(pollingInterval)
          /\ invoked' = NoneInvoked
          /\ caught' = {}
     ELSE /\ \E throwers \in SUBSET {c \in Callbacks :
                                         \E q \in DOMAIN callbacks : InSeq(c, callbacks[q])} :
               /\ invoked' = PollInvocations(callbacks, throwers)
               /\ caught' = throwers
          /\ UNCHANGED pollingInterval
  /\ UNCHANGED <<fallbackEnabled, watchingPaths, callbacks, disposed,
                 individualIntervals, cleanupListeners, storage, storageOk,
                 windowHooks, handles, closedHandles, nativeOpen, liveIntervals,
                 calls, nativeCalls>>
  /\ UNCHANGED nonWatcherVars

\* a 'change' event of the native watcher of handle i (safeWatch), or a
\* native watchPaths notification (safeWatchPaths)
NativeChange(i) ==
  /\ justLoaded' = FALSE
  /\ watcherOp' = "NativeChange"
  /\ caught' = {}
  /\ i \in nativeOpen
  /\ \E throwers \in SUBSET Callbacks :
       /\ invoked' =
            IF handles[i].kind = "nativePaths"
            THEN [c \in Callbacks |-> IF c = handles[i].cb THEN 1 ELSE 0]
            ELSE IF handles[i].pattern \in DOMAIN callbacks
            THEN ForEachInvocations(callbacks[handles[i].pattern], throwers)
            ELSE NoneInvoked
       /\ thrown' = (\E c \in throwers : invoked'[c] > 0)
  /\ UNCHANGED <<fallbackEnabled, watchingPaths, callbacks, pollingInterval, disposed,
                 individualIntervals, cleanupListeners, storage, storageOk,
                 windowHooks, handles, closedHandles, nativeOpen, liveIntervals,
                 calls, nativeCalls>>
  /\ UNCHANGED nonWatcherVars

\* one firing of the interval that safeWatchPaths created for handle i
IntervalTick(i) ==
  /\ justLoaded' = FALSE
  /\ watcherOp' = "IntervalTick"
  /\ caught' = {}
  /\ i \in liveIntervals
  /\ thrown' = FALSE
  /\ IF disposed
     THEN /\ liveIntervals' = liveIntervals \ {i}
          /\ invoked' = NoneInvoked
     ELSE /\ invoked' = [c \in Callbacks |-> IF c = handles[i].cb THEN 1 ELSE 0]
          /\ UNCHANGED liveIntervals
  /\ UNCHANGED <<fallbackEnabled, watchingPaths, callbacks, pollingInterval, disposed,
                 individualIntervals, cleanupListeners, storage, storageOk,
                 windowHooks, handles, closedHandles, nativeOpen, calls,
                 nativeCalls>>
  /\ UNCHANGED nonWatcherVars

\* disposeFileWatcher() without the check of watcherState.disposed
DisposeFileWatcher_NoGuard ==
  /\ justLoaded' = FALSE
  /\ watcherOp' = "DisposeFileWatcher"
  /\ caught' = {}
  /\ invoked' = NoneInvoked
  /\ thrown' = FALSE
  /\ IF FALSE
     THEN UNCHANGED <<disposed, pollingInterval, liveIntervals, individualIntervals,
                      callbacks, watchingPaths, windowHooks, cleanupListeners>>
     ELSE /\ disposed' = TRUE
          /\ pollingInterval' = stopPolling(pollingInterval)
          /\ liveIntervals' = liveIntervals \ individualIntervals
          /\ individualIntervals' = {}
          /\ callbacks' = EmptyMap
          /\ watchingPaths' = {}
          /\ windowHooks' = windowHooks - cleanupListeners
          /\ cleanupListeners' = 0
  /\ UNCHANGED <<fallbackEnabled, storage, storageOk, handles, closedHandles,
                 nativeOpen, calls, nativeCalls>>
  /\ UNCHANGED nonWatcherVars

\* disposeFileWatcher() that also goes back to native mode
DisposeFileWatcher_ResetsMode ==
  /\ justLoaded' = FALSE
  /\ watcherOp' = "DisposeFileWatcher"
  /\ caught' = {}
  /\ invoked' = NoneInvoked
  /\ thrown' = FALSE
  /\ IF disposed
     THEN UNCHANGED <<disposed, pollingInterval, liveIntervals, individualIntervals,
                      callbacks, watchingPaths, windowHooks, cleanupListeners,
                      fallbackEnabled>>
     ELSE /\ disposed' = TRUE
          /\ fallbackEnabled' = FALSE
          /\ pollingInterval' = stopPolling(pollingInterval)
          /\ liveIntervals' = liveIntervals \ individualIntervals
          /\ individualIntervals' = {}
          /\ callbacks' = EmptyMap
          /\ watchingPaths' = {}
          /\ windowHooks' = windowHooks - cleanupListeners
          /\ cleanupListeners' = 0
  /\ UNCHANGED <<storage, storageOk, handles, closedHandles,
                 nativeOpen, calls, nativeCalls>>
  /\ UNCHANGED nonWatcherVars

\* disposeFileWatcher(), called directly or by an unload hook
DisposeFileWatcher ==
  /\ justLoaded' = FALSE
  /\ watcherOp' = "DisposeFileWatcher"
  /\ caught' = {}
  /\ invoked' = NoneInvoked
  /\ thrown' = FALSE
  /\ IF disposed
     THEN UNCHANGED <<disposed, pollingInterval, liveIntervals, individualIntervals,
                      callbacks, watchingPaths, windowHooks, cleanupListeners>>
     ELSE /\ disposed' = TRUE
          /\ pollingInterval' = stopPolling(pollingInterval)
          /\ liveIntervals' = liveIntervals \ individualIntervals
          /\ individualIntervals' = {}
          /\ callbacks' = EmptyMap
          /\ watchingPaths' = {}
          /\ windowHooks' = windowHooks - cleanupListeners
          /\ cleanupListeners' = 0
  /\ UNCHANGED <<fallbackEnabled, storage, storageOk, handles, closedHandles,
                 nativeOpen, calls, nativeCalls>>
  /\ UNCHANGED nonWatcherVars

\* the page is loaded again: the module state is rebuilt, the storage stays
Restart ==
  /\ storage' = storage
  /\ storageOk' \in BOOLEAN
  /\ fallbackEnabled' = tryLoadFallbackState(storage, storageOk')
  /\ watchingPaths' = {}
  /\ callbacks' = EmptyMap
  /\ pollingInterval' = Null
  /\ disposed' = FALSE
  /\ individualIntervals' = {}
  /\ cleanupListeners' = 0
  /\ windowHooks' = 0
  /\ handles' = <<>>
  /\ closedHandles' = {}
  /\ nativeOpen' = {}
  /\ liveIntervals' = {}
  /\ calls' = <<>>
  /\ nativeCalls' = 0
  /\ invoked' = NoneInvoked
  /\ thrown' = FALSE
  /\ justLoaded' = TRUE
  /\ watcherOp' = "load"
  /\ caught' = {}
  /\ UNCHANGED nonWatcherVars

(***************************************************************************)
(* TerminalStore: state and helpers                                        *)
(***************************************************************************)
Terminals == {"t1", "t2"}
Procs == 1..MaxProcs
Signals == {"beforeunload", "unload"}     \* the two hooks of the constructor
Callers == Signals \cup {"direct"}        \* who can call detachAllTerminals()
IdleCall == [status |-> "idle", waiting |-> {}]
NoProcess == 0                            \* no record found (findIndex gave -1)
NoOp == [op |-> "none", terminal |-> "none", process |-> NoProcess]

\* processes of the records of the registry
ProcsOf(recs) == {recs[k].process : k \in 1..Len(recs)}

TerminalInit ==
  /\ terminals = <<>>
  /\ storeDisposed = FALSE
  /\ killed = [q \in Procs |-> FALSE]
  /\ killCalls = [q \in Procs |-> 0]
  /\ killFailed = {}
  /\ spawned = 0
  /\ attachCalls = <<>>
  /\ detachAll = [c \in Callers |-> IdleCall]
  /\ disposePc = [d \in Signals |-> "idle"]
  /\ boltDisposeCalls = 0
  /\ boltOutcome = "none"
  /\ spawnCalls = 0
  /\ errorWrites = [t \in Terminals |-> 0]
  /\ detachCalls = <<>>
  /\ lastOp = NoOp

(***************************************************************************)
(* TerminalStore: operations                                               *)
(***************************************************************************)
\* attachTerminal(t) without the #disposed guard
AttachTerminal_NoGuard(t) ==
  /\ spawnCalls < MaxProcs
  /\ spawnCalls' = spawnCalls + 1
  /\ attachCalls' = Append(attachCalls, t)
  /\ lastOp' = [op |-> "attach", terminal |-> t, process |-> NoProcess]
  /\ UNCHANGED <<terminals, storeDisposed, killed, killCalls, killFailed, spawned,
                 detachAll, disposePc, boltDisposeCalls, boltOutcome, errorWrites,
                 detachCalls>>
  /\ UNCHANGED nonTerminalVars

\* attachTerminal(t) up to the await of newShellProcess: on a disposed store a
\* warning is logged and the call returns; otherwise newShellProcess is called
\* (the #webcontainer promise is settled by then)
AttachTerminal(t) ==
  /\ IF storeDisposed
     THEN /\ lastOp' = [op |-> "attachWarned", terminal |-> t, process |-> NoProcess]
          /\ UNCHANGED <<attachCalls, spawnCalls>>
     ELSE /\ spawnCalls < MaxProcs
          /\ spawnCalls' = spawnCalls + 1
          /\ attachCalls' = Append(attachCalls, t)
          /\ lastOp' = [op |-> "attach", terminal |-> t, process |-> NoProcess]
  /\ UNCHANGED <<terminals, storeDisposed, killed, killCalls, killFailed, spawned,
                 detachAll, disposePc, boltDisposeCalls, boltOutcome, errorWrites,
                 detachCalls>>
  /\ UNCHANGED nonTerminalVars

\* newShellProcess of attach call i has yielded a process
AttachSpawned(i) ==
  /\ i \in 1..Len(attachCalls)
  /\ spawned' = spawned + 1
  /\ terminals' = Append(terminals, [terminal |-> attachCalls[i], process |-> spawned + 1])
  /\ attachCalls' = RemoveAt(attachCalls, i)
  /\ lastOp' = [op |-> "attachPushed", terminal |-> attachCalls[i],
                process |-> spawned + 1]
  /\ UNCHANGED <<storeDisposed, killed, killCalls, killFailed, detachAll, disposePc,
                 boltDisposeCalls, boltOutcome, spawnCalls, errorWrites, detachCalls>>
  /\ UNCHANGED nonTerminalVars

\* newShellProcess of attach call i has failed: the error is written to the terminal
AttachFailed(i) ==
  /\ i \in 1..Len(attachCalls)
  /\ attachCalls' = RemoveAt(attachCalls, i)
  /\ errorWrites' = [errorWrites EXCEPT ![attachCalls[i]] = @ + 1]
  /\ lastOp' = [op |-> "attachFailed", terminal |-> attachCalls[i],
                process |-> NoProcess]
  /\ UNCHANGED <<terminals, storeDisposed, killed, killCalls, killFailed, spawned,
                 detachAll, disposePc, boltDisposeCalls, boltOutcome, spawnCalls,
                 detachCalls>>
  /\ UNCHANGED nonTerminalVars

\* #terminals.findIndex(r => r.terminal === t), counted from 1; 0 when absent
findIndex(recs, t) ==
  IF \E k \in 1..Len(recs) : recs[k].terminal = t
  THEN CHOOSE k \in 1..Len(recs) :
         /\ recs[k].terminal = t
         /\ \A j \in 1..(k - 1) : recs[j].terminal # t
  ELSE 0

\* #terminals.splice(index, 1): nothing is removed when index is past the end
splice(recs, index) ==
  IF index \in 1..Len(recs) THEN RemoveAt(recs, index) ELSE recs

\* detachTerminal(t) up to its await: the record is looked up; when there is
\* none the call returns; when its process is killed the record is spliced
\* out at once; otherwise kill() is called, and either throws (caught, the
\* record is spliced out) or is awaited
DetachTerminal(t) ==
  LET index == findIndex(terminals, t)
      q == IF index = 0 THEN NoProcess ELSE terminals[index].process
  IN /\ Len(detachCalls) < MaxDetach
     /\ lastOp' = [op |-> "detach", terminal |-> t, process |-> q]
     /\ IF index = 0
        THEN UNCHANGED <<terminals, killed, killCalls, killFailed, detachCalls>>
        ELSE IF killed[q]
        THEN /\ terminals' = splice(terminals, index)
             /\ UNCHANGED <<killed, killCalls, killFailed, detachCalls>>
        ELSE /\ killCalls' = [killCalls EXCEPT ![q] = @ + 1]
             /\ \/ /\ killFailed' = killFailed \cup {q}
                   /\ terminals' = splice(terminals, index)
                   /\ UNCHANGED <<killed, detachCalls>>
                \/ /\ detachCalls' = Append(detachCalls,
                          [terminal |-> t, index |-> index, process |-> q])
                   /\ \E marked \in BOOLEAN :
                        killed' = [killed EXCEPT ![q] = marked]
                   /\ UNCHANGED <<terminals, killFailed>>
     /\ UNCHANGED <<storeDisposed, spawned, attachCalls, detachAll, disposePc,
                    boltDisposeCalls, boltOutcome, spawnCalls, errorWrites>>
     /\ UNCHANGED nonTerminalVars

\* the kill() awaited by detachTerminal call i settles (a rejection is
\* caught) and the call goes on: splice(index, 1) with the index it looked up
\* before the await
DetachResumed(i) ==
  /\ i \in 1..Len(detachCalls)
  /\ \E ok \in BOOLEAN :
       /\ killed' = IF ok THEN [killed EXCEPT ![detachCalls[i].process] = TRUE]
                    ELSE killed
       /\ killFailed' = IF ok THEN killFailed
                        ELSE killFailed \cup {detachCalls[i].process}
  /\ terminals' = splice(terminals, detachCalls[i].index)
  /\ detachCalls' = RemoveAt(detachCalls, i)
  /\ lastOp' = [op |-> "detachResumed", terminal |-> detachCalls[i].terminal,
                process |-> detachCalls[i].process]
  /\ UNCHANGED <<storeDisposed, killCalls, spawned, attachCalls, detachAll, disposePc,
                 boltDisposeCalls, boltOutcome, spawnCalls, errorWrites>>
  /\ UNCHANGED nonTerminalVars

\* detachAllTerminals() in which a kill() that throws ends the map: no kill()
\* is called on the other processes
DetachAllBegin_NoCatch(c) ==
  LET live == {q \in ProcsOf(terminals) : ~killed[q]}
  IN \E throwing \in SUBSET live, marked \in SUBSET live :
       /\ marked \cap throwing = {}
       /\ killCalls' = [q \in Procs |->
                          IF q \in live /\ (throwing = {} \/ q \in throwing)
                          THEN killCalls[q] + 1 ELSE killCalls[q]]
       /\ killed' = [q \in Procs |-> killed[q] \/ (throwing = {} /\ q \in marked)]
       /\ killFailed' = killFailed \cup throwing
       /\ detachAll' = [detachAll EXCEPT
                          ![c] = [status |-> "awaiting",
                                  waiting |-> IF throwing = {} THEN live ELSE {}]]

\* the synchronous part of detachAllTerminals() called by c: the map over
\* #terminals calls kill() on every process that is not killed; a kill() that
\* throws is caught, the others are awaited.  process.killed may turn true at
\* the call or when the kill settles.
DetachAllBegin(c) ==
  LET live == {q \in ProcsOf(terminals) : ~killed[q]}
  IN \E throwing \in SUBSET live, marked \in SUBSET live :
       /\ marked \cap throwing = {}
       /\ killCalls' = [q \in Procs |-> IF q \in live THEN killCalls[q] + 1
                                        ELSE killCalls[q]]
       /\ killed' = [q \in Procs |-> killed[q] \/ q \in marked]
       /\ killFailed' = killFailed \cup throwing
       /\ detachAll' = [detachAll EXCEPT
                          ![c] = [status |-> "awaiting", waiting |-> live \ throwing]]

\* detachAllTerminals() called from outside the store
DetachAllTerminals ==
  /\ detachAll["direct"].status = "idle"
  /\ DetachAllBegin("direct")
  /\ UNCHANGED <<terminals, storeDisposed, spawned, attachCalls, disposePc,
                 boltDisposeCalls, boltOutcome>>
  /\ lastOp' = NoOp
  /\ UNCHANGED <<spawnCalls, errorWrites, detachCalls>>
  /\ UNCHANGED nonTerminalVars

\* a kill() awaited by the detachAllTerminals() of c settles
KillSettled(c, q) ==
  /\ detachAll[c].status = "awaiting"
  /\ q \in detachAll[c].waiting
  /\ \E ok \in BOOLEAN :
       /\ killed' = IF ok THEN [killed EXCEPT ![q] = TRUE] ELSE killed
       /\ killFailed' = IF ok THEN killFailed ELSE killFailed \cup {q}
  /\ detachAll' = [detachAll EXCEPT ![c].waiting = @ \ {q}]
  /\ UNCHANGED <<terminals, storeDisposed, killCalls, spawned, attachCalls,
                 disposePc, boltDisposeCalls, boltOutcome>>
  /\ lastOp' = NoOp
  /\ UNCHANGED <<spawnCalls, errorWrites, detachCalls>>
  /\ UNCHANGED nonTerminalVars

\* Promise.allSettled of the detachAllTerminals() of c is through
DetachAllSettled(c) ==
  /\ detachAll[c].status = "awaiting"
  /\ detachAll[c].waiting = {}
  /\ terminals' = <<>>
  /\ detachAll' = [detachAll EXCEPT ![c].status = "resolved"]
  /\ UNCHANGED <<storeDisposed, killed, killCalls, killFailed, spawned, attachCalls,
                 disposePc, boltDisposeCalls, boltOutcome>>
  /\ lastOp' = NoOp
  /\ UNCHANGED <<spawnCalls, errorWrites, detachCalls>>
  /\ UNCHANGED nonTerminalVars

\* dispose() without the #disposed guard
Dispose_NoGuard(d) ==
  /\ disposePc[d] = "idle"
  /\ storeDisposed' = TRUE
  /\ DetachAllBegin(d)
  /\ disposePc' = [disposePc EXCEPT ![d] = "detaching"]
  /\ UNCHANGED <<terminals, spawned, attachCalls, boltDisposeCalls, boltOutcome>>
  /\ lastOp' = NoOp
  /\ UNCHANGED <<spawnCalls, errorWrites, detachCalls>>
  /\ UNCHANGED nonTerminalVars

\* dispose() called by shutdown signal d, up to its first await
Dispose(d) ==
  /\ disposePc[d] = "idle"
  /\ IF storeDisposed
     THEN /\ disposePc' = [disposePc EXCEPT ![d] = "returned"]
          /\ UNCHANGED <<storeDisposed, killed, killCalls, killFailed, detachAll>>
     ELSE /\ storeDisposed' = TRUE
          /\ DetachAllBegin(d)
          /\ disposePc' = [disposePc EXCEPT ![d] = "detaching"]
  /\ UNCHANGED <<terminals, spawned, attachCalls, boltDisposeCalls, boltOutcome>>
  /\ lastOp' = NoOp
  /\ UNCHANGED <<spawnCalls, errorWrites, detachCalls>>
  /\ UNCHANGED nonTerminalVars

\* dispose() of d goes on after detachAllTerminals(): #boltTerminal.dispose?.()
\* is absent, throws at once, or is awaited
DisposeBolt(d) ==
  /\ disposePc[d] = "detaching"
  /\ detachAll[d].status = "resolved"
  /\ \/ /\ boltOutcome' = "absent"
        /\ disposePc' = [disposePc EXCEPT ![d] = "resolved"]
        /\ UNCHANGED boltDisposeCalls
     \/ /\ boltOutcome' = "threw"
        /\ boltDisposeCalls' = boltDisposeCalls + 1
        /\ disposePc' = [disposePc EXCEPT ![d] = "resolved"]
     \/ /\ boltOutcome' = "pending"
        /\ boltDisposeCalls' = boltDisposeCalls + 1
        /\ disposePc' = [disposePc EXCEPT ![d] = "bolt"]
  /\ UNCHANGED <<terminals, storeDisposed, killed, killCalls, killFailed, spawned,
                 attachCalls, detachAll>>
  /\ lastOp' = NoOp
  /\ UNCHANGED <<spawnCalls, errorWrites, detachCalls>>
  /\ UNCHANGED nonTerminalVars

\* the awaited #boltTerminal.dispose() settles; a rejection is caught
BoltSettled(d) ==
  /\ disposePc[d] = "bolt"
  /\ boltOutcome' \in {"resolved", "rejected"}
  /\ disposePc' = [disposePc EXCEPT ![d] = "resolved"]
  /\ UNCHANGED <<terminals, storeDisposed, killed, killCalls, killFailed, spawned,
                 attachCalls, detachAll, boltDisposeCalls>>
  /\ lastOp' = NoOp
  /\ UNCHANGED <<spawnCalls, errorWrites, detachCalls>>
  /\ UNCHANGED nonTerminalVars

(***************************************************************************)
(* Test mocks: MockProcess, MockFileWatcher, MockStreamReader              *)
(***************************************************************************)
MockKinds == {"process", "fileWatcher", "streamReader"}

MockInit ==
  /\ activeMocks = [k \in MockKinds |-> <<>>]
  /\ runningMocks = [k \in MockKinds |-> {}]
  /\ createdMocks = [k \in MockKinds |-> 0]

\* array.indexOf(m), counted from 1; 0 when absent
indexOf(arr, m) ==
  IF \E j \in 1..Len(arr) : arr[j] = m
  THEN CHOOSE j \in 1..Len(arr) : arr[j] = m /\ \A l \in 1..(j - 1) : arr[l] # m
  ELSE 0

\* the tracking array after kill() / dispose() / stop() of mock m
Untrack(arr, m) ==
  IF indexOf(arr, m) >= 1 THEN RemoveAt(arr, indexOf(arr, m)) ELSE arr

\* arr.forEach(m => m.kill()), from position i on: the mocks it stops.  Each
\* kill() splices its mock out of the very array that forEach walks, and
\* forEach goes on with the next index of the array as it is by then.
RECURSIVE ForEachStopped(_, _)
ForEachStopped(arr, i) ==
  IF i > Len(arr) THEN {}
  ELSE {arr[i]} \cup ForEachStopped(Untrack(arr, arr[i]), i + 1)

\* start() / startReading() of a new mock of class k
StartMock(k) ==
  /\ createdMocks[k] < MaxMocks
  /\ createdMocks' = [createdMocks EXCEPT ![k] = @ + 1]
  /\ runningMocks' = [runningMocks EXCEPT ![k] = @ \cup {createdMocks[k] + 1}]
  /\ activeMocks' = [activeMocks EXCEPT ![k] = Append(@, createdMocks[k] + 1)]
  /\ UNCHANGED nonMockVars

\* kill() / dispose() / stop() of mock m of class k
StopMock(k, m) ==
  /\ m \in 1..createdMocks[k]
  /\ runningMocks' = [runningMocks EXCEPT ![k] = @ \ {m}]
  /\ activeMocks' = [activeMocks EXCEPT ![k] = Untrack(@, m)]
  /\ UNCHANGED createdMocks
  /\ UNCHANGED nonMockVars

\* window.__testCleanup(): each tracking array is walked with forEach, stopping
\* the mocks it visits, and then replaced by an empty array
TestCleanup ==
  /\ runningMocks' = [k \in MockKinds |->
                        runningMocks[k] \ ForEachStopped(activeMocks[k], 1)]
  /\ activeMocks' = [k \in MockKinds |-> <<>>]
  /\ UNCHANGED createdMocks
  /\ UNCHANGED nonMockVars

(***************************************************************************)
(* Specifications                                                          *)
(***************************************************************************)
\* a leak test that starts and stops mocks and runs the cleanup of afterEach
InitMocks == MockInit /\ MonitorIdle /\ WatcherIdle /\ TerminalInit

NextMocks ==
  \/ \E k \in MockKinds : StartMock(k)
  \/ \E k \in MockKinds, m \in 1..MaxMocks : StopMock(k, m)
  \/ TestCleanup
SpecMocks == InitMocks /\ [][NextMocks]_vars

InitTrend == MonitorInit /\ WatcherIdle /\ TerminalInit /\ MockInit

NextTrend == RecordSample \/ GetReport
SpecTrend == InitTrend /\ [][NextTrend]_vars

\* a monitor on a host whose heap stays where it is
InitMonitor ==
  /\ MonitorFresh
  /\ workload = "flat"
  /\ WatcherIdle
  /\ TerminalInit
  /\ MockInit

NextMonitor ==
  \/ \E testPhase \in StartPhases : StartMonitoring(testPhase)
  \/ StopMonitoring
  \/ TimerTick
  \/ RecordNow
  \/ \E label \in SnapshotLabels : TakeSnapshot(label)
  \/ GetReport
  \/ ExportData
  \/ Clear
  \/ AdvanceClock
SpecMonitor == InitMonitor /\ [][NextMonitor]_vars

\* a monitor used without its timer: measurements are recorded by hand at
\* different times and heap levels, and reports are taken
InitReport ==
  /\ MonitorFresh
  /\ workload = "levels"
  /\ WatcherIdle
  /\ TerminalInit
  /\ MockInit

NextReport ==
  \/ RecordNow
  \/ GetReport
  \/ Clear
  \/ AdvanceClock
SpecReport == InitReport /\ [][NextReport]_vars

\* a monitor with warnings enabled on a host whose heap grows past the
\* thresholds; measurements are recorded by hand and by snapshots
InitWarnings ==
  /\ MonitorFresh
  /\ workload = "heavy"
  /\ WatcherIdle
  /\ TerminalInit
  /\ MockInit

NextWarnings ==
  \/ RecordNow
  \/ \E label \in SnapshotLabels : TakeSnapshot(label)
  \/ Clear
SpecWarnings == InitWarnings /\ [][NextWarnings]_vars

InitWatcher == WatcherInit /\ MonitorIdle /\ TerminalInit /\ MockInit

NextWatcher ==
  \/ \E p \in Patterns, cb \in Callbacks : SafeWatch(p, cb)
  \/ \E i \in 1..MaxHandles : SafeWatchResolved(i)
  \/ \E i \in 1..MaxHandles : SafeWatchRejected(i)
  \/ \E cb \in Callbacks : SafeWatchPaths(cb)
  \/ \E i \in 1..MaxHandles : CloseHandle(i)
  \/ PollTick
  \/ \E i \in 1..MaxHandles : NativeChange(i)
  \/ \E i \in 1..MaxHandles : IntervalTick(i)
  \/ DisposeFileWatcher
  \/ Restart
SpecWatcher == InitWatcher /\ [][NextWatcher]_vars

\* registrations through safeWatch, closes and dispose, with a shared poll
\* timer that keeps firing while it runs: setInterval fires its callback
\* again and again until clearInterval
NextPolling ==
  \/ \E p \in Patterns, cb \in Callbacks : SafeWatch(p, cb)
  \/ \E i \in 1..MaxHandles : SafeWatchResolved(i)
  \/ \E i \in 1..MaxHandles : SafeWatchRejected(i)
  \/ \E i \in 1..MaxHandles : CloseHandle(i)
  \/ PollTick
  \/ DisposeFileWatcher
SpecPolling == InitWatcher /\ [][NextPolling]_vars /\ WF_vars(PollTick)

InitTerminal == TerminalInit /\ MonitorIdle /\ WatcherIdle /\ MockInit

NextTerminal ==
  \/ \E t \in Terminals : AttachTerminal(t)
  \/ \E i \in 1..MaxProcs : AttachSpawned(i)
  \/ \E i \in 1..MaxProcs : AttachFailed(i)
  \/ DetachAllTerminals
  \/ \E c \in Callers, q \in Procs : KillSettled(c, q)
  \/ \E c \in Callers : DetachAllSettled(c)
  \/ \E d \in Signals : Dispose(d)
  \/ \E d \in Signals : DisposeBolt(d)
  \/ \E d \in Signals : BoltSettled(d)
SpecTerminal == InitTerminal /\ [][NextTerminal]_vars

\* the store in use before the page unloads: terminals are attached and
\* detached one by one
NextDetach ==
  \/ \E t \in Terminals : AttachTerminal(t)
  \/ \E i \in 1..MaxProcs : AttachSpawned(i)
  \/ \E i \in 1..MaxProcs : AttachFailed(i)
  \/ \E t \in Terminals : DetachTerminal(t)
  \/ \E i \in 1..MaxDetach : DetachResumed(i)
SpecDetach == InitTerminal /\ [][NextDetach]_vars

(***************************************************************************)
(* Reference definitions used by the properties                            *)
(***************************************************************************)
RECURSIVE SetSum(_, _)
SetSum(f, S) ==
  IF S = {} THEN 0
  ELSE LET x == CHOOSE y \in S : TRUE IN f[x] + SetSum(f, S \ {x})

\* heapUsed of the k-th (0-based) of the ten most recent measurements
Recent10 == [k \in 0..9 |-> measurements[Len(measurements) - 9 + k].heapUsed]
\* least-squares slope of Recent10 against 0..9 as numerator and denominator
SlopeNum ==
  10 * SetSum([k \in 0..9 |-> k * Recent10[k]], 0..9)
    - SetSum([k \in 0..9 |-> k], 0..9) * SetSum(Recent10, 0..9)
SlopeDen ==
  10 * SetSum([k \in 0..9 |-> k * k], 0..9)
    - SetSum([k \in 0..9 |-> k], 0..9) * SetSum([k \in 0..9 |-> k], 0..9)
\* the ten most recent measurements rise by exactly d each
RisesBy(d) == \A k \in 1..9 : Recent10[k] - Recent10[k - 1] = d

FirstHeap == measurements[1].heapUsed
LastHeap == measurements[Len(measurements)].heapUsed
PeakHeap ==
  CHOOSE p \in {measurements[i].heapUsed : i \in 1..Len(measurements)} :
    \A i \in 1..Len(measurements) : measurements[i].heapUsed <= p

(***************************************************************************)
(* Properties                                                              *)
(***************************************************************************)
\* C1: with fewer than 10 measurements (the empty log included) getReport()
\* reports leakDetected = false, whatever the heapUsed values are.
C1_ShortLogNoLeak ==
  (report # NoReport /\ Len(measurements) < 10) => report.leakDetected = FALSE

\* nine samples rising by 2 MiB each have been reported on
C1_Witness ==
  /\ report # NoReport
  /\ Len(measurements) = 9
  /\ \A i \in 2..9 : measurements[i].heapUsed - measurements[i - 1].heapUsed = 2 * MiB

\* C2: with at least 10 measurements leakDetected is true iff the
\* least-squares slope of heapUsed against index 0..9 over the 10 most recent
\* measurements is strictly greater than 1 MiB; older measurements do not
\* matter; 10 samples rising by 2 MiB give true, constant samples and samples
\* rising by exactly 1 MiB give false.
C2_LeakIffSlopeAboveMiB ==
  (report # NoReport /\ Len(measurements) >= 10) =>
    /\ SlopeDen > 0
    /\ report.leakDetected <=> (SlopeNum > 1024 * SlopeDen)
    /\ RisesBy(2 * 1024) => report.leakDetected
    /\ RisesBy(0) => ~report.leakDetected
    /\ RisesBy(1024) => ~report.leakDetected

\* a leak reported on an 11-sample log whose oldest step is flat, so that the
\* first ten samples alone have a different slope than the last ten
C2_Witness ==
  /\ report # NoReport
  /\ Len(measurements) = 11
  /\ report.leakDetected
  /\ measurements[2].heapUsed = measurements[1].heapUsed
  /\ SlopeNum < 2 * 1024 * SlopeDen

\* C3: memoryEfficiency is 1 - (current - baseline)/(peak - baseline) clamped
\* to [0,1], and 1 when peak = baseline or the log has fewer than 2
\* measurements; it is always within [0,1].
C3_EfficiencyClamped ==
  report # NoReport =>
    LET e == report.memoryEfficiency IN
    /\ e.den > 0 /\ 0 <= e.num /\ e.num <= e.den
    /\ Len(measurements) < 2 => e.num = e.den
    /\ Len(measurements) >= 2 =>
         /\ PeakHeap = FirstHeap => e.num = e.den
         /\ (PeakHeap # FirstHeap /\ LastHeap < FirstHeap) => e.num = e.den
         /\ (PeakHeap # FirstHeap /\ LastHeap >= FirstHeap) =>
              e.num * (PeakHeap - FirstHeap) = e.den * (PeakHeap - LastHeap)
         /\ (FirstHeap = 10 * 1024 /\ PeakHeap = 50 * 1024) =>
              /\ LastHeap = 10 * 1024 => e.num = e.den
              /\ LastHeap = 50 * 1024 => e.num = 0
              /\ LastHeap = 30 * 1024 => 2 * e.num = e.den
         /\ (Len(measurements) = 10 /\ RisesBy(0)) => e.num = e.den

\* a report on a log that went from 30 MiB up to 50 MiB and ended at 10 MiB,
\* below its first sample
C3_Witness ==
  /\ report # NoReport
  /\ Len(measurements) >= 3
  /\ FirstHeap = 30 * 1024 /\ PeakHeap = 50 * 1024 /\ LastHeap = 10 * 1024

\* a native registration has failed since the page was loaded
NativeFailed ==
  \E i \in 1..Len(handles) : handles[i].kind \in {"catch", "catchInterval"}
SafeWatchKinds == {"fallback", "native", "catch"}

\* C4: fallback mode is sticky: within one page load, once fallbackEnabled is
\* true no step (safeWatch, safeWatchPaths, close, tick, dispose) makes it false.
C4_FallbackSticky ==
  [][(fallbackEnabled /\ ~justLoaded') => fallbackEnabled']_vars

\* fallback mode is still on after a native failure, a close and the dispose
C4_Witness ==
  /\ fallbackEnabled /\ disposed
  /\ NativeFailed
  /\ closedHandles # {}

\* C5: once a native registration has failed, no later step calls a native
\* watch primitive, and every registration that starts afterwards on a live
\* watcher is served by polling: safeWatch leaves its callback in the callbacks
\* map with the shared poll timer running, safeWatchPaths gets a live interval.
C5_NoNativeAfterFailure ==
  [][(NativeFailed /\ ~justLoaded') =>
       /\ nativeCalls' = nativeCalls
       /\ (Len(handles') > Len(handles) /\ calls' = calls /\ ~disposed) =>
            LET id == Len(handles')
                h == handles'[id]
            IN /\ h.kind \in {"fallback", "interval"}
               /\ pollingInterval' # Null
               /\ h.kind = "fallback" =>
                    /\ h.pattern \in DOMAIN callbacks'
                    /\ InSeq(h.cb, callbacks'[h.pattern])
               /\ h.kind = "interval" => id \in liveIntervals']_vars

\* a native failure on one pattern followed by a safeWatch registration on
\* another pattern, served by the fallback branch
C5_Witness ==
  /\ Len(handles) = 2
  /\ handles[1].kind = "catch"
  /\ handles[2].kind = "fallback"
  /\ handles[2].pattern # handles[1].pattern
  /\ nativeCalls = 1

\* C6: every step that turns fallbackEnabled on writes the persisted flag as
\* 'true' (when storage works); a watcher state built from storage starts in
\* fallback mode iff the stored value is 'true'; so while storage works
\* fallbackEnabled implies that the persisted flag is 'true'.
C6_FlagPersisted ==
  /\ [][/\ (~fallbackEnabled /\ fallbackEnabled' /\ ~justLoaded' /\ storageOk)
             => storage' = "true"
        /\ justLoaded' =>
             /\ storage' = storage
             /\ fallbackEnabled' = (storageOk' /\ storage = "true")]_vars
  /\ [](justLoaded => (fallbackEnabled <=> (storageOk /\ storage = "true")))
  /\ []((storageOk /\ fallbackEnabled) => storage = "true")

\* a native failure has switched the mode and written the flag, which was not
\* 'true' when the page was loaded (the page would have started in fallback)
C6_Witness ==
  /\ storageOk
  /\ NativeFailed
  /\ fallbackEnabled /\ storage = "true"

\* C7: the shared poll timer is non-null iff the mode is Fallback
\* (fallbackEnabled and not disposed) and the callbacks map is non-empty.
C7_TimerIffFallbackWithCallbacks ==
  (pollingInterval # Null) <=>
    (fallbackEnabled /\ ~disposed /\ DOMAIN callbacks # {})

\* C8: of two distinct callbacks registered with safeWatch on one pattern, the
\* one whose handle is still open keeps being notified after the other handle
\* is closed; once both handles are closed and no pattern has a callback, the
\* shared poll timer is stopped and no native watcher of the pattern is open.
C8_SharedUnregister ==
  \A i, j \in 1..Len(handles) :
    (/\ i # j
     /\ handles[i].kind \in SafeWatchKinds /\ handles[j].kind \in SafeWatchKinds
     /\ handles[i].pattern = handles[j].pattern
     /\ handles[i].cb # handles[j].cb) =>
      /\ (i \in closedHandles /\ j \notin closedHandles /\ ~disposed) =>
           /\ handles[j].pattern \in DOMAIN callbacks
           /\ InSeq(handles[j].cb, callbacks[handles[j].pattern])
           /\ pollingInterval # Null \/ j \in nativeOpen
      /\ (i \in closedHandles /\ j \in closedHandles /\ DOMAIN callbacks = {}) =>
           /\ pollingInterval = Null
           /\ i \notin nativeOpen /\ j \notin nativeOpen

\* C9: dispose() called by both shutdown signals, the second before the
\* teardown of the first is through, never rejects, runs detachAllTerminals
\* at most once and calls the bolt terminal's dispose at most once; a bolt
\* dispose that throws or rejects is caught and dispose() resolves.
C9_DisposeOnce ==
  /\ \A d \in Signals : disposePc[d] # "rejected"
  /\ Cardinality({d \in Signals : detachAll[d].status # "idle"}) <= 1
  /\ boltDisposeCalls <= 1
  /\ boltOutcome \in {"threw", "rejected"} =>
       \E d \in Signals : disposePc[d] = "resolved"

\* the second dispose() has returned while the first still awaits the bolt
\* terminal, after a kill has failed
C9_Witness ==
  \E d1, d2 \in Signals :
    /\ disposePc[d1] = "bolt"
    /\ disposePc[d2] = "returned"
    /\ killFailed # {}
    /\ boltDisposeCalls = 1

\* C10: detachAllTerminals() calls kill() on every record whose process is not
\* killed, whichever of the kills throw; it goes on only when every awaited
\* kill has settled, then the registry is empty and the call has resolved; it
\* never rejects.
C10_DetachAllBestEffort ==
  [][\A c \in Callers :
       /\ (detachAll[c].status = "idle" /\ detachAll'[c].status # "idle") =>
            /\ \A q \in ProcsOf(terminals) :
                 ~killed[q] => killCalls'[q] = killCalls[q] + 1
            /\ detachAll'[c].status = "awaiting"
       /\ (detachAll[c].status = "awaiting" /\ detachAll'[c].status # "awaiting") =>
            /\ detachAll[c].waiting = {}
            /\ terminals' = <<>>
            /\ detachAll'[c].status = "resolved"
       /\ detachAll'[c].status # "rejected"]_vars

\* a direct detachAllTerminals() on two records has resolved although one of
\* the two kills failed
C10_Witness ==
  /\ detachAll["direct"].status = "resolved"
  /\ \A d \in Signals : disposePc[d] = "idle"
  /\ terminals = <<>>
  /\ spawned = 2
  /\ Cardinality(killFailed) = 1
  /\ \A q \in 1..2 : killCalls[q] = 1

\* C11: detachTerminal(t) of a terminal that is not tracked changes nothing;
\* for a tracked t whose process is already killed it calls no kill(); and
\* once the call is through (at once, or after the awaited kill() has
\* resolved or rejected) the record it looked up for t is out of the registry.
C11_DetachRemovesRecord ==
  [][LET q == lastOp'.process
     IN /\ (lastOp'.op = "detach" /\ q = NoProcess) =>
             /\ terminals' = terminals
             /\ killCalls' = killCalls
             /\ killed' = killed
             /\ detachCalls' = detachCalls
        /\ (lastOp'.op = "detach" /\ q # NoProcess /\ killed[q]) =>
             killCalls' = killCalls
        /\ (/\ lastOp'.op \in {"detach", "detachResumed"}
            /\ q # NoProcess
            /\ Len(detachCalls') <= Len(detachCalls)) =>
             q \notin ProcsOf(terminals')]_vars

\* C12: attachTerminal on a disposed store calls no newShellProcess and
\* leaves the registry and the pending attaches as they are; a failed spawn
\* writes one error to the terminal of the call and leaves the registry as it
\* is; a successful spawn appends exactly one record, for the terminal of the
\* call and the new process.
C12_AttachOutcomes ==
  [][/\ (storeDisposed /\ lastOp'.op \in {"attach", "attachWarned"}) =>
          /\ spawnCalls' = spawnCalls
          /\ terminals' = terminals
          /\ attachCalls' = attachCalls
          /\ errorWrites' = errorWrites
     /\ lastOp'.op = "attachFailed" =>
          /\ errorWrites' = [errorWrites EXCEPT ![lastOp'.terminal] = @ + 1]
          /\ terminals' = terminals
     /\ lastOp'.op = "attachPushed" =>
          /\ lastOp'.process \notin ProcsOf(terminals)
          /\ terminals' = Append(terminals, [terminal |-> lastOp'.terminal,
                                             process |-> lastOp'.process])]_vars

\* an attach on the disposed store has just been turned away, after one
\* attach had added a record and another had failed
C12_Witness ==
  /\ lastOp.op = "attachWarned"
  /\ storeDisposed
  /\ spawned = 1
  /\ \E t \in Terminals : errorWrites[t] = 1

\* what disposeFileWatcher() can touch
disposable == <<fallbackEnabled, watchingPaths, callbacks, pollingInterval, disposed,
                individualIntervals, cleanupListeners, storage, windowHooks, handles,
                nativeOpen, liveIntervals, calls, nativeCalls>>

\* C13: the first disposeFileWatcher() sets disposed, clears the shared timer
\* and every interval of safeWatchPaths, empties callbacks, watchingPaths,
\* individualIntervals and cleanupListeners and takes every unload hook off the
\* window; a call on a disposed watcher changes nothing and clears no timer.
C13_DisposeIdempotent ==
  [][watcherOp' = "DisposeFileWatcher" =>
       IF disposed
       THEN UNCHANGED disposable
       ELSE /\ disposed'
            /\ pollingInterval' = Null
            /\ liveIntervals' = {}
            /\ callbacks' = EmptyMap
            /\ watchingPaths' = {}
            /\ individualIntervals' = {}
            /\ cleanupListeners' = 0
            /\ windowHooks' = 0]_vars

\* a second disposeFileWatcher() has just run on a disposed watcher that holds
\* an interval, and has left it alone
C13_Witness ==
  /\ watcherOp = "DisposeFileWatcher"
  /\ disposed
  /\ individualIntervals # {}
  /\ liveIntervals # {}

\* C14: when disposeFileWatcher() has run, no native watcher that a safeWatch
\* opened is still open.
C14_DisposeClosesNative ==
  [][(~disposed /\ disposed') =>
       \A i \in nativeOpen' : handles'[i].kind # "native"]_vars

\* C15: safeWatch on a disposed watcher throws and changes nothing: no
\* callback is registered, no native watch is attempted, no timer is started
\* and the fallback flag is not written.
C15_WatchAfterDisposeThrows ==
  [][(watcherOp' = "SafeWatch" /\ disposed) =>
       /\ thrown'
       /\ UNCHANGED disposable]_vars

\* safeWatch has just thrown on a disposed watcher
C15_Witness ==
  /\ watcherOp = "SafeWatch"
  /\ disposed
  /\ thrown

\* C16: on a disposed watcher neither safeWatch nor safeWatchPaths registers
\* anything: no handle is returned, no native subscription is opened, no
\* timer is started, and callbacks, watchingPaths and individualIntervals
\* get no entry.
C16_NoRegistrationAfterDispose ==
  [][(watcherOp' \in {"SafeWatch", "SafeWatchPaths"} /\ disposed) =>
       /\ handles' = handles
       /\ nativeOpen' = nativeOpen
       /\ nativeCalls' = nativeCalls
       /\ liveIntervals' = liveIntervals
       /\ pollingInterval' = pollingInterval
       /\ callbacks' = callbacks
       /\ watchingPaths' = watchingPaths
       /\ individualIntervals' = individualIntervals]_vars

\* C17: a shared poll tick on a live watcher invokes every callback of every
\* pattern, whichever of them throw; no exception leaves the tick; the timer
\* and the callbacks stay, so the next tick invokes them all again.
C17_PollTickIsolatesCallbacks ==
  [][(watcherOp' = "PollTick" /\ ~disposed) =>
       /\ \A c \in Callbacks :
            invoked'[c] = Cardinality({q \in DOMAIN callbacks : InSeq(c, callbacks[q])})
       /\ ~thrown'
       /\ pollingInterval' = pollingInterval
       /\ pollingInterval' # Null
       /\ callbacks' = callbacks]_vars

\* a tick has just invoked f and g although f threw
C17_Witness ==
  /\ watcherOp = "PollTick"
  /\ caught = {"f"}
  /\ invoked["f"] > 0
  /\ invoked["g"] > 0
  /\ pollingInterval # Null

\* C18: when the native attempt of a safeWatch fails on a live watcher, the
\* call returns a handle (it does not throw), the watcher is in fallback mode,
\* the shared timer runs and the callback of the call is in the callbacks map
\* under its pattern.
C18_FailedWatchIsPolled ==
  [][(/\ watcherOp' \in {"SafeWatch", "SafeWatchRejected"}
      /\ Len(handles') = Len(handles) + 1
      /\ handles'[Len(handles')].kind = "catch"
      /\ ~disposed) =>
       LET h == handles'[Len(handles')]
       IN /\ ~thrown'
          /\ fallbackEnabled'
          /\ pollingInterval' # Null
          /\ h.pattern \in DOMAIN callbacks'
          /\ InSeq(h.cb, callbacks'[h.pattern])]_vars

\* C19: startMonitoring(phase) on a monitor that is not running leaves a log
\* of exactly one measurement, labelled phase and taken at the call, and one
\* more live timer, the one held in intervalId; on a running monitor it
\* changes neither the log, nor the start time, nor the timers.
C19_StartRecordsOnceAndStartsOneTimer ==
  [][monitorOp'.op = "startMonitoring" =>
       IF isMonitoring
       THEN UNCHANGED <<measurements, startTime, intervalId, liveTimers, isMonitoring>>
       ELSE /\ Len(measurements') = 1
            /\ measurements'[1].testPhase = monitorOp'.phase
            /\ measurements'[1].timestamp = now
            /\ startTime' = now
            /\ isMonitoring'
            /\ intervalId' # Undefined
            /\ liveTimers = 0
            /\ liveTimers' = 1]_vars

\* startMonitoring('stress') has just been called on a monitor that was
\* started with 'baseline' and has ticked since
C19_Witness ==
  /\ monitorOp = Call("startMonitoring", "stress")
  /\ isMonitoring
  /\ liveTimers = 1
  /\ Len(measurements) >= 2
  /\ measurements[1].testPhase = "baseline"

\* C20: stopMonitoring() leaves the log and the start time as they are and no
\* timer behind, so that no tick appends while the monitor is stopped; on a
\* monitor that is not running it changes nothing.
C20_StopIdempotent ==
  [][/\ monitorOp'.op = "stopMonitoring" =>
          /\ measurements' = measurements
          /\ startTime' = startTime
          /\ ~isMonitoring'
          /\ intervalId' = Undefined
          /\ liveTimers' = 0
          /\ ~isMonitoring =>
               UNCHANGED <<isMonitoring, intervalId, liveTimers>>
     /\ monitorOp'.op = "tick" => isMonitoring]_vars

\* stopMonitoring() has just been called on a stopped monitor whose log holds
\* the measurements of its run
C20_Witness ==
  /\ monitorOp = Call("stopMonitoring", "none")
  /\ ~isMonitoring
  /\ liveTimers = 0
  /\ Len(measurements) >= 2
  /\ measurements[Len(measurements)].testPhase = "monitoring"

(***************************************************************************)
(* C21: with a clock that never goes backwards the log is ordered by       *)
(* non-decreasing timestamp after every step of startMonitoring, timer     *)
(* ticks, recordMeasurement, takeSnapshot, stopMonitoring and clear, and a *)
(* recordMeasurement or takeSnapshot call appends exactly one measurement, *)
(* stamped with the current time, at the end of the log, whether or not    *)
(* the timer is running.                                                   *)
(***************************************************************************)
OrderedByTimestamp(log) ==
  \A i \in 1..Len(log), j \in 1..Len(log) :
    i <= j => log[i].timestamp <= log[j].timestamp

C21_LogOrderedAndAppended ==
  [][/\ OrderedByTimestamp(measurements')
     /\ monitorOp'.op \in {"recordMeasurement", "takeSnapshot"}
          => /\ Len(measurements') = Len(measurements) + 1
             /\ SubSeq(measurements', 1, Len(measurements)) = measurements
             /\ measurements'[Len(measurements')].timestamp = now
             /\ measurements'[Len(measurements')].testPhase = monitorOp'.phase]_vars

\* a snapshot taken on a stopped monitor, behind a measurement of the timer
\* that is older than it
C21_Witness ==
  /\ monitorOp.op = "takeSnapshot"
  /\ ~isMonitoring
  /\ liveTimers = 0
  /\ Len(measurements) = 3
  /\ measurements[2].testPhase = "monitoring"
  /\ measurements[2].timestamp < measurements[3].timestamp

(***************************************************************************)
(* C22: a measurement stays in the log, unchanged and at its position,     *)
(* until clear() is called: every step that is not clear() leaves the log  *)
(* it found as a prefix of the log it leaves.                              *)
(***************************************************************************)
C22_OnlyClearRemoves ==
  [][monitorOp'.op # "clear"
       => /\ Len(measurements') >= Len(measurements)
          /\ SubSeq(measurements', 1, Len(measurements)) = measurements]_vars

(***************************************************************************)
(* C23: getReport() on a non-empty log returns baseline = heapUsed of the  *)
(* first measurement, current = heapUsed of the last, peak = the largest   *)
(* heapUsed of the log and growth = current - baseline, hence peak >=      *)
(* baseline and peak >= current; on the empty log it returns baseline =    *)
(* current = peak = growth = 0, leakDetected = false, averageGrowthRate =  *)
(* 0 and memoryEfficiency = 1. The call leaves the monitor as it was.      *)
(***************************************************************************)
C23_ReportFields ==
  [][monitorOp'.op = "getReport"
       => /\ UNCHANGED <<measurements, now, isMonitoring, intervalId, startTime,
                         liveTimers>>
          /\ measurements # <<>>
               => /\ report'.baseline = FirstHeap
                  /\ report'.current = LastHeap
                  /\ report'.peak = PeakHeap
                  /\ report'.growth = LastHeap - FirstHeap
                  /\ report'.peak >= report'.baseline
                  /\ report'.peak >= report'.current
          /\ measurements = <<>>
               => /\ report'.baseline = 0 /\ report'.current = 0
                  /\ report'.peak = 0 /\ report'.growth = 0
                  /\ report'.leakDetected = FALSE
                  /\ report'.averageGrowthRate.num = 0
                  /\ report'.memoryEfficiency.num = report'.memoryEfficiency.den]_vars

\* a report of a log whose peak is neither its first nor its last measurement
C23_Witness ==
  /\ monitorOp.op = "getReport"
  /\ Len(measurements) >= 3
  /\ report.peak > report.baseline
  /\ report.peak > report.current
  /\ report.growth < 0

\* a report of the empty log
C23_WitnessEmpty ==
  /\ monitorOp.op = "getReport"
  /\ measurements = <<>>
  /\ report.memoryEfficiency.num = 1

(***************************************************************************)
(* C24: the averageGrowthRate of a report is (heapUsed of the last         *)
(* measurement - heapUsed of the first) divided by the seconds elapsed     *)
(* between the two; it is 0 when no time elapsed between them or when the  *)
(* log has fewer than 2 measurements, and its divisor is never zero.       *)
(* Timestamps are whole seconds here, so the elapsed seconds are exact.    *)
(***************************************************************************)
ElapsedMs == measurements[Len(measurements)].timestamp - measurements[1].timestamp

C24_AverageGrowthRate ==
  [][monitorOp'.op = "getReport"
       => LET r == report'.averageGrowthRate
          IN /\ r.den # 0
             /\ Len(measurements) < 2 => r.num = 0
             /\ (Len(measurements) >= 2 /\ ElapsedMs = 0) => r.num = 0
             /\ (Len(measurements) >= 2 /\ ElapsedMs # 0)
                  => /\ ElapsedMs > 0
                     /\ ElapsedMs % 1000 = 0
                     /\ FracEq(r, Frac(LastHeap - FirstHeap,
                                       ElapsedMs \div 1000))]_vars

\* a report over two seconds in which the heap shrank
C24_Witness ==
  /\ monitorOp.op = "getReport"
  /\ Len(measurements) >= 2
  /\ ElapsedMs = 2000
  /\ LastHeap - FirstHeap = -(20 * 1024)
  /\ FracEq(report.averageGrowthRate, FracOfInt(-(10 * 1024)))

\* a report over two measurements of different heaps taken at the same time
C24_WitnessNoTime ==
  /\ monitorOp.op = "getReport"
  /\ Len(measurements) >= 2
  /\ ElapsedMs = 0
  /\ LastHeap # FirstHeap
  /\ report.averageGrowthRate.num = 0

(***************************************************************************)
(* C25: attachTerminal racing with dispose(): once a dispose() has         *)
(* resolved and no attachTerminal call is still waiting for its shell, the *)
(* registry holds no record, so no process spawned by an attach that       *)
(* started before dispose() is tracked in the disposed store or left       *)
(* running.                                                                *)
(***************************************************************************)
C25_NoRecordAfterDispose ==
  ((\E d \in Signals : disposePc[d] = "resolved") /\ attachCalls = <<>>)
    => /\ terminals = <<>>
       /\ \A q \in 1..spawned : killed[q] \/ killCalls[q] > 0

(***************************************************************************)
(* C26: concurrent detachTerminal calls for different terminals: a call    *)
(* that is through and whose record is still tracked by then (no call for  *)
(* the same terminal took it) removes exactly that record, and every other *)
(* record stays tracked, in its order.                                     *)
(***************************************************************************)
WithoutProcess(recs, q) == SelectSeq(recs, LAMBDA r : r.process # q)

C26_ConcurrentDetachExact ==
  [][LET q == lastOp'.process
     IN (/\ lastOp'.op \in {"detach", "detachResumed"}
         /\ q \in ProcsOf(terminals)
         /\ Len(detachCalls') <= Len(detachCalls))
          => terminals' = WithoutProcess(terminals, q)]_vars

(***************************************************************************)
(* C27: over every interleaving of detachTerminal, detachAllTerminals and  *)
(* dispose, kill() is called at most once on any process.                  *)
(***************************************************************************)
C27_KillAtMostOnce == \A q \in Procs : killCalls[q] <= 1

(***************************************************************************)
(* C28: every record that a step takes out of #terminals belongs to a      *)
(* process that is killed or on which kill() has been called; a record     *)
(* pushed by an attachTerminal while detachAllTerminals() is awaiting is   *)
(* not dropped unkilled.                                                   *)
(***************************************************************************)
C28_RemovedRecordsWereKilled ==
  [][\A q \in ProcsOf(terminals) \ ProcsOf(terminals') :
       killed'[q] \/ killCalls'[q] > 0]_vars

(***************************************************************************)
(* C29: once disposeFileWatcher() has returned, no step invokes a callback *)
(* that was registered through safeWatch or safeWatchPaths (be it a shared *)
(* poll tick, the interval of a safeWatchPaths handle or the change event  *)
(* of a native watcher that is still open), and the shared poll timer is   *)
(* not running.                                                            *)
(***************************************************************************)
C29_SilentAfterDispose ==
  disposed => /\ \A c \in Callbacks : invoked[c] = 0
              /\ pollingInterval = Null

(***************************************************************************)
(* C30: when a callback throws while a native change event is delivered,   *)
(* the exception is caught and the other callbacks of the pattern are      *)
(* still invoked for that event: the event invokes every callback of the   *)
(* pattern and no exception leaves the listener.                           *)
(***************************************************************************)
C30_NativeEventIsolatesCallbacks ==
  [][\A i \in nativeOpen :
       (/\ watcherOp' = "NativeChange"
        /\ handles[i].kind = "native"
        /\ handles[i].pattern \in DOMAIN callbacks
        /\ \E c \in Callbacks : invoked'[c] > 0 /\ InSeq(c, callbacks[handles[i].pattern]))
         => /\ ~thrown'
            /\ \A c \in Callbacks :
                 InSeq(c, callbacks[handles[i].pattern]) => invoked'[c] > 0]_vars

(***************************************************************************)
(* C31: in native mode a native watch is created for a pattern only when   *)
(* none exists yet: whatever safeWatch registrations were made, at most    *)
(* one native watcher of safeWatch is open for any pattern (so that one    *)
(* change of the pattern is delivered once to each of its callbacks).      *)
(***************************************************************************)
NativeWatchersOf(p) ==
  {i \in nativeOpen : handles[i].kind = "native" /\ handles[i].pattern = p}

C31_OneNativeWatcherPerPattern ==
  \A p \in Patterns : Cardinality(NativeWatchersOf(p)) <= 1

(***************************************************************************)
(* C32: fallback polling uses a single shared timer: pollingInterval holds *)
(* the only polling timer there is, and a registration made in fallback    *)
(* mode, through safeWatch or safeWatchPaths, creates no polling timer     *)
(* besides the shared one.                                                 *)
(***************************************************************************)
C32_SingleSharedTimer ==
  [][(fallbackEnabled /\ watcherOp' \in {"SafeWatch", "SafeWatchPaths"})
       => /\ liveIntervals' = liveIntervals
          /\ individualIntervals' = individualIntervals
          /\ pollingInterval # Null => pollingInterval' = pollingInterval]_vars

(***************************************************************************)
(* C33: one shared poll tick invokes each callback at most once, whatever  *)
(* the callbacks map holds: also when the same callback is registered      *)
(* under two patterns or twice under one pattern.                          *)
(***************************************************************************)
C33_OncePerTick ==
  [][watcherOp' = "PollTick" => \A c \in Callbacks : invoked'[c] <= 1]_vars

(***************************************************************************)
(* C34: whenever the watcher is in fallback mode, not disposed, and the    *)
(* callbacks map is not empty, the shared poll timer is running (so its    *)
(* ticks invoke every registered callback), after any sequence of          *)
(* registrations and closes.                                               *)
(***************************************************************************)
C34_FallbackCallbacksArePolled ==
  (fallbackEnabled /\ ~disposed /\ DOMAIN callbacks # {}) => pollingInterval # Null

(***************************************************************************)
(* C35: when disposeFileWatcher() ran while a safeWatch call was awaiting  *)
(* webcontainer.fs.watch, the settling of that call leaves callbacks and   *)
(* watchingPaths empty, the poll timer stopped and no native watcher open  *)
(* that was not open before.                                               *)
(***************************************************************************)
C35_DisposeBeatsInFlightWatch ==
  [][(disposed /\ watcherOp' \in {"SafeWatchResolved", "SafeWatchRejected"})
       => /\ DOMAIN callbacks' = {}
          /\ watchingPaths' = {}
          /\ pollingInterval' = Null
          /\ nativeOpen' \subseteq nativeOpen]_vars

\* callback c is in the callbacks map of a live watcher in fallback mode
Polled(c) ==
  /\ fallbackEnabled
  /\ ~disposed
  /\ \E q \in DOMAIN callbacks : InSeq(c, callbacks[q])

\* C34, with timers that fire: a callback in the map of a live watcher in
\* fallback mode is invoked by a later step, unless it leaves the map first
C34_PolledEventuallyInvoked ==
  /\ []C34_FallbackCallbacksArePolled
  /\ \A c \in Callbacks : Polled(c) ~> (invoked[c] > 0 \/ ~Polled(c))

\* a poll tick has invoked the callbacks of a pattern that stayed registered
\* while the handle that started the timer was closed
C34_Witness ==
  /\ watcherOp = "PollTick"
  /\ fallbackEnabled /\ ~disposed
  /\ DOMAIN callbacks = {"pkg"}
  /\ invoked["g"] = 1
  /\ \E i \in closedHandles : handles[i].kind = "catch"

(***************************************************************************)
(* C36: whenever the promise of a dispose() call of the terminal store has *)
(* resolved, teardown is complete: the registry is empty, no kill() is     *)
(* still pending, every process that was spawned has had its kill settled  *)
(* and the dispose of the bolt terminal has settled.  This holds for a     *)
(* second dispose() called while the first is still awaiting, too.         *)
(***************************************************************************)
C36_ResolvedMeansTornDown ==
  \A d \in Signals :
    disposePc[d] \in {"resolved", "returned"}
      => /\ terminals = <<>>
         /\ \A c \in Callers : detachAll[c].waiting = {}
         /\ \A q \in 1..spawned : killed[q] \/ q \in killFailed
         /\ boltOutcome \notin {"none", "pending"}

(***************************************************************************)
(* C37: in every reachable state of a monitor a periodic timer exists      *)
(* exactly when isMonitoring is true, there is never more than one, and    *)
(* the timer that exists is the one held in intervalId, which              *)
(* stopMonitoring clears: no sequence of startMonitoring, stopMonitoring,  *)
(* clear and recordMeasurement leaves a timer that cannot be cancelled.    *)
(***************************************************************************)
C37_TimerIffMonitoring ==
  /\ liveTimers <= 1
  /\ (liveTimers = 1) <=> isMonitoring
  /\ (intervalId # Undefined) <=> (liveTimers = 1)

\* clear() has just run on a running monitor, some time after the monitor
\* was created: its timer is still there and still held in intervalId
C37_Witness ==
  /\ monitorOp.op = "clear"
  /\ isMonitoring
  /\ liveTimers = 1
  /\ intervalId # Undefined
  /\ startTime = 0
  /\ now > 0

(***************************************************************************)
(* C38: the file watcher has at most one pair of unload hooks on the       *)
(* window at any time, however often the shared poll timer is started,     *)
(* stopped by the last unregistration and started again, and every hook    *)
(* on the window is recorded in cleanupListeners.                          *)
(***************************************************************************)
C38_OnePairOfUnloadHooks ==
  /\ windowHooks <= 1
  /\ windowHooks = cleanupListeners

(***************************************************************************)
(* C39: with warnings enabled, every recordMeasurement or takeSnapshot     *)
(* call whose measurement has heapUsed above maxBaseline, or a growth over *)
(* the first measurement of the log above warningGrowth, logs a diagnostic *)
(* notification for it (the first measurement of a log included); the call *)
(* returns normally, having appended just that measurement to the log.     *)
(***************************************************************************)
C39_ThresholdsNotify ==
  [][monitorOp'.op \in {"recordMeasurement", "takeSnapshot"}
       => LET m == measurements'[Len(measurements')]
              growth == m.heapUsed - measurements'[1].heapUsed
          IN /\ Len(measurements') = Len(measurements) + 1
             /\ SubSeq(measurements', 1, Len(measurements)) = measurements
             /\ m.heapUsed > maxBaseline => "absolute" \in monitorOp'.warnings
             /\ growth > criticalGrowth => "critical" \in monitorOp'.warnings
             /\ (growth > warningGrowth /\ growth <= criticalGrowth)
                  => "warning" \in monitorOp'.warnings]_vars

(***************************************************************************)
(* C40: window.__testCleanup() stops every active mock: however many       *)
(* MockProcess, MockFileWatcher and MockStreamReader objects are in the    *)
(* tracking arrays, after the call every one of them has been stopped (its *)
(* interval cleared, isActive() false) and the three arrays are empty.     *)
(***************************************************************************)
C40_CleanupStopsEveryMock ==
  [][TestCleanup
       => \A k \in MockKinds :
            /\ activeMocks'[k] = <<>>
            /\ \A j \in 1..Len(activeMocks[k]) :
                 activeMocks[k][j] \notin runningMocks'[k]]_vars

====
